---------------------------- MODULE Spec2Model ----------------------------
(***************************************************************************)
(* Model of the swing-trading strategy control plane:                      *)
(*   - AdaptiveOrder   (src/advanced_orders.py)                            *)
(*   - GridOsc         (src/grid_osc_strategy.py)                          *)
(*   - SwingStrategy   (src/swing_strategy.py) on top of Strategy          *)
(*                     (src/strategy.py)                                   *)
(*                                                                         *)
(* Prices are integers counted in model units; one exchange tick is Tick   *)
(* units and the contract's price resolution (10^-decimal) is Tick units   *)
(* as well, so that a price that is not a whole number of ticks exists and *)
(* round(price, decimal) is a real rounding.  float('inf') is the          *)
(* number Inf, larger than every price and every quantity of the model.    *)
(***************************************************************************)
EXTENDS Integers, Sequences, FiniteSets, TLC

(***************************************************************************)
(* Bounds of the model and program constants.                              *)
(***************************************************************************)
Tick == 2
MaxPriceTicks == 3
MaxQty == 2
MaxRetry == 1
MaxSlip == 1
MaxOrderId == 1
MaxAcks == 2
Inf == 999
None == 0 - 1

Prices == {Tick * k : k \in 0..MaxPriceTicks}

BUY == "0"
SELL == "1"
DIRECTION_LONG == "long"
DIRECTION_SHORT == "short"
ORDER_OPEN == "order_status_open"
ORDER_CLOSED == "order_status_closed"
ORDER_REJECTED == "order_status_rejected"
ORDER_CANCELLED == "order_status_cancelled"
ORDER_REPEAT_CANCEL == "order_status_repeat_cancel"
NoSignal == "None"

Min(a, b) == IF a <= b THEN a ELSE b
Max(a, b) == IF a >= b THEN a ELSE b
Abs(a) == IF a >= 0 THEN a ELSE 0 - a

\* Python 3 round(a / b) for b > 0: to the nearest integer, a tie to the even one.
RoundDiv(a, b) ==
    LET q == a \div b
        r == a % b
    IN  IF 2 * r < b THEN q
        ELSE IF 2 * r > b THEN q + 1
        ELSE IF q % 2 = 0 THEN q ELSE q + 1

\* Contract quantization: round(round(p / tick) * tick, decimal).
Quantize(p) == RoundDiv(p, Tick) * Tick

\* round(price, contract.decimal): to the nearest multiple of the resolution.
RoundDecimal(p) == RoundDiv(p, Tick) * Tick

(***************************************************************************)
(* AdaptiveOrder                                                           *)
(***************************************************************************)
AO_INIT == "INIT"
AO_REQ == "REQ"
AO_PENDING == "PENDING"
AO_FILLED == "FILLED"
AO_CANCELLED == "CANCELLED"
PATIENT == "PATIENT"
ACCELERATED == "ACCELERATED"
URGENT == "URGENT"
PANIC == "PANIC"

\* Aggressiveness rank of a mode (its place in the constructor's stack).
ModeRank(m) ==
    CASE m = PATIENT -> 0
      [] m = ACCELERATED -> 1
      [] m = URGENT -> 2
      [] m = PANIC -> 3

\* while self._order_mode_stack[-1][1] <= 0: self._order_mode_stack.pop()
\* The top of the stack is the last element.  On an empty stack the loop
\* condition raises IndexError: the stack is left empty.
\* Variant: exhausted entries are left on the stack.
PopExhausted_Keep(stack) == stack

RECURSIVE PopExhausted(_)
PopExhausted(stack) ==
    IF stack = <<>> THEN stack
    ELSE IF stack[Len(stack)].n <= 0
         THEN PopExhausted(SubSeq(stack, 1, Len(stack) - 1))
         ELSE stack

\* Variant: an acknowledged order does not consume a retry.
DecRetry_Keep(n) == n

\* inf - 1 = inf.
DecRetry(n) == IF n = Inf THEN Inf ELSE n - 1

AOLongShort(buy_or_sell, direction) ==
    IF (buy_or_sell = BUY /\ direction = DIRECTION_LONG)
       \/ (buy_or_sell = SELL /\ direction = DIRECTION_SHORT)
    THEN 0 ELSE 1

AOPriceBound(order_price, long_short, max_slippage) ==
    IF max_slippage = Inf THEN (1 - 2 * long_short) * Inf
    ELSE order_price + (1 - 2 * long_short) * max_slippage * Tick

\* AdaptiveOrder.__init__; p holds the constructor's arguments.
AONew(p) ==
    [ buy_or_sell |-> p.buy_or_sell,
      direction |-> p.direction,
      order_price |-> p.order_price,
      order_qty |-> p.order_qty,
      order_tag |-> p.order_tag,
      retry_step |-> p.retry_step,
      state |-> AO_INIT,
      filled_qty |-> 0,
      filled_amt |-> 0,     \* filled_price * filled_qty, kept exact
      long_short |-> AOLongShort(p.buy_or_sell, p.direction),
      price_bound |-> AOPriceBound(p.order_price,
                                   AOLongShort(p.buy_or_sell, p.direction),
                                   p.max_slippage),
      stack |-> PopExhausted(<< [mode |-> PANIC, n |-> p.panic_max_retry],
                                [mode |-> URGENT, n |-> p.urgent_max_retry],
                                [mode |-> ACCELERATED, n |-> p.accelerated_max_retry],
                                [mode |-> PATIENT, n |-> p.patient_max_retry] >>),
      last_order_id |-> None,
      last_order_price |-> None,
      last_order_mode |-> "None" ]

AOTop(o) == o.stack[Len(o.stack)]

AOSign(o) == 1 - 2 * o.long_short

\* (min, max)[long_short](a, b)
Favor(long_short, a, b) == IF long_short = 0 THEN Min(a, b) ELSE Max(a, b)
\* Variant: the Urgent price is picked like the Accelerated one.
Concede_Favor(long_short, a, b) == IF long_short = 0 THEN Min(a, b) ELSE Max(a, b)

\* (max, min)[long_short](a, b)
Concede(long_short, a, b) == IF long_short = 0 THEN Max(a, b) ELSE Min(a, b)

MidPoint(c) == RoundDecimal(RoundDiv(c.bid + c.ask, 2 * Tick) * Tick)

\* The Init branch's cancel test (advanced_orders.py line 78).
\* Variant: a tick exactly at price_bound counts as beyond it.
AOCrossedBound_Geq(o, c) == AOSign(o) * (c.last - o.price_bound) >= 0

AOCrossedBound(o, c) == AOSign(o) * (c.last - o.price_bound) > 0

\* Candidate price of the mode on top of the stack.
AOQuotePrice(o, c) ==
    LET mode == AOTop(o).mode
        d == AOSign(o)
        mid == MidPoint(c)
    IN  CASE mode = PATIENT ->
               LET p == Favor(o.long_short, c.last, mid)
               IN  IF o.last_order_price = None /\ o.order_price # None
                   THEN Favor(o.long_short, o.order_price, p)
                   ELSE p
          [] mode = ACCELERATED -> Favor(o.long_short, c.last + d * Tick, mid)
          [] mode = URGENT -> Concede(o.long_short, c.last + d * Tick, mid)
          [] OTHER -> IF o.long_short = 0 THEN c.ask ELSE c.bid

\* Variant: every quote asks for the whole order quantity.
AOQuoteQty_Full(o) == o.order_qty

AOQuoteQty(o) == o.order_qty - o.filled_qty

\* Variant: the slip has to exceed retry_step ticks.
AOPendingCancel_Strict(o, c) ==
    \/ AOSign(o) * (c.last - o.last_order_price) > o.retry_step * Tick
    \/ AOSign(o) * (c.last - o.price_bound) > 0

\* The Pending branch's cancel test (TIME_LIMIT is infinite for every mode).
AOPendingCancel(o, c) ==
    \/ AOSign(o) * (c.last - o.last_order_price) >= o.retry_step * Tick
    \/ AOSign(o) * (c.last - o.price_bound) > 0

NoParams == [action |-> "None"]

\* Variant: on_tick in Req quotes again instead of waiting for the answer.
AOOnTick_Requote(o, c) ==
    IF o.state \in {AO_INIT, AO_REQ} THEN
        IF o.stack = <<>> \/ AOCrossedBound(o, c)
        THEN [ao |-> [o EXCEPT !.state = AO_CANCELLED],
              sig |-> ORDER_CANCELLED, params |-> NoParams]
        ELSE [ao |-> [o EXCEPT !.state = AO_REQ],
              sig |-> ORDER_OPEN,
              params |-> [action |-> o.buy_or_sell,
                          direction |-> o.direction,
                          price |-> AOQuotePrice(o, c),
                          qty |-> AOQuoteQty(o),
                          tag |-> o.order_tag]]
    ELSE IF o.state = AO_PENDING THEN
        IF AOPendingCancel(o, c)
        THEN [ao |-> o, sig |-> ORDER_OPEN,
              params |-> [action |-> "CANCEL", order_id |-> o.last_order_id]]
        ELSE [ao |-> o, sig |-> NoSignal, params |-> NoParams]
    ELSE [ao |-> o, sig |-> ORDER_CLOSED, params |-> NoParams]

\* AdaptiveOrder.on_tick: the order after the call, the signal and the params.
AOOnTick(o, c) ==
    IF o.state = AO_INIT THEN
        IF o.stack = <<>> \/ AOCrossedBound(o, c)
        THEN [ao |-> [o EXCEPT !.state = AO_CANCELLED],
              sig |-> ORDER_CANCELLED, params |-> NoParams]
        ELSE [ao |-> [o EXCEPT !.state = AO_REQ],
              sig |-> ORDER_OPEN,
              params |-> [action |-> o.buy_or_sell,
                          direction |-> o.direction,
                          price |-> AOQuotePrice(o, c),
                          qty |-> AOQuoteQty(o),
                          tag |-> o.order_tag]]
    ELSE IF o.state = AO_REQ THEN
        [ao |-> o, sig |-> NoSignal, params |-> NoParams]
    ELSE IF o.state = AO_PENDING THEN
        IF AOPendingCancel(o, c)
        THEN [ao |-> o, sig |-> ORDER_OPEN,
              params |-> [action |-> "CANCEL", order_id |-> o.last_order_id]]
        ELSE [ao |-> o, sig |-> NoSignal, params |-> NoParams]
    ELSE [ao |-> o, sig |-> ORDER_CLOSED, params |-> NoParams]

\* AdaptiveOrder.on_buysell_success.  With an empty stack line 121 raises
\* IndexError after the id and price were stored and before the state is set.
AOOnBuySellSuccess(o, order_id, order_price) ==
    IF o.stack = <<>>
    THEN [o EXCEPT !.last_order_id = order_id,
                   !.last_order_price = order_price]
    ELSE [o EXCEPT !.last_order_id = order_id,
                   !.last_order_price = order_price,
                   !.last_order_mode = AOTop(o).mode,
                   !.state = AO_PENDING,
                   !.stack = PopExhausted(
                       [o.stack EXCEPT ![Len(o.stack)].n = DecRetry(@)])]

\* Variant: a refused request consumes a retry like an accepted one.
AOOnBuySellFail_Consume(o) ==
    [o EXCEPT !.state = AO_INIT,
              !.stack = PopExhausted(
                  [o.stack EXCEPT ![Len(o.stack)].n = DecRetry(@)])]

\* AdaptiveOrder.on_buysell_fail
AOOnBuySellFail(o) == [o EXCEPT !.state = AO_INIT]

\* AdaptiveOrder.on_trade_update
AOOnTradeUpdate(o, trade_price, trade_qty) ==
    [o EXCEPT !.filled_amt = @ + trade_price * trade_qty,
              !.filled_qty = @ + trade_qty]

\* Variant: any status that ends a quote makes the order Filled.
AOOnOrderStatus_AnyEnd(o, order_status) == [o EXCEPT !.state = AO_FILLED]

\* Variant: only the Closed status makes the order Filled.
AOOnOrderStatus_ClosedOnly(o, order_status) ==
    IF order_status = ORDER_CLOSED
    THEN [o EXCEPT !.state = AO_FILLED]
    ELSE [o EXCEPT !.state = AO_INIT]

\* AdaptiveOrder.on_order_status
AOOnOrderStatus(o, order_status) ==
    IF order_status = ORDER_CLOSED \/ o.filled_qty = o.order_qty
    THEN [o EXCEPT !.state = AO_FILLED]
    ELSE [o EXCEPT !.state = AO_INIT]

(***************************************************************************)
(* State                                                                   *)
(***************************************************************************)
VARIABLES
    contract,   \* Contract snapshot: last, bid, ask
    ao,         \* the AdaptiveOrder under test
    ao_ret,     \* what on_tick returned, when it was the last call: sig, params
    bk,         \* the broker's side of the order protocol
    zone,       \* the GridOsc under test
    g_args,     \* the arguments the zone was constructed with
    g_ret,      \* what on_tick_trade returned, with its arguments
    cfg,        \* the session: strategy parameters and the market it runs in
    sw,         \* the SwingStrategy fields
    strat,         \* the Strategy fields: active, position_qty, order_dict
    queue,      \* the events the strategy has put in the event engine
    pm          \* a position under update_position_avg_price_2way, with its accounts

aoVars == << contract, ao, ao_ret, bk >>

gridVars == << zone, g_args, g_ret >>

swingVars == << cfg, sw, strat, queue, pm >>

vars == << aoVars, gridVars, swingVars >>

NoContract == [last |-> None, bid |-> None, ask |-> None]
NoBroker == [phase |-> "idle", id |-> 0, price |-> None, qty |-> 0, traded |-> 0,
             status |-> "None"]

NoRet == [sig |-> NoSignal, params |-> NoParams]

\* Market snapshots a tick delivers: the last trade at, or one tick from, the
\* best bid and ask.
Quotes ==
    { c \in [last : Prices, bid : Prices, ask : Prices] :
        /\ c.bid <= c.ask
        /\ c.bid = c.last
        /\ c.ask \in {c.last, c.last + Tick} }

\* The order variables where no AdaptiveOrder is modelled.
NoAO == contract = NoContract /\ ao = << >> /\ ao_ret = NoRet /\ bk = NoBroker

\* The zone variables where no zone is modelled.
NoGrid == zone = << >> /\ g_args = << >> /\ g_ret = << >>

\* The session variables where no session is modelled.
NoSwing == cfg = << >> /\ sw = << >> /\ strat = << >> /\ queue = << >> /\ pm = << >>

RetrySteps == {1, 2}
MidPrice == Tick * (MaxPriceTicks \div 2)

\* Constructor arguments of the order under test.  A construction whose
\* retry counts are all <= 0 raises IndexError and yields no object.
AOArgs ==
    { p \in [ buy_or_sell : {BUY, SELL},
              direction : {DIRECTION_LONG, DIRECTION_SHORT},
              order_qty : {MaxQty},
              order_price : {MidPrice},
              order_tag : {"AO"},
              retry_step : RetrySteps,
              patient_max_retry : 0..MaxRetry,
              accelerated_max_retry : {0, MaxRetry, Inf},
              urgent_max_retry : {0, MaxRetry},
              panic_max_retry : {0, MaxRetry},
              max_slippage : {MaxSlip, Inf} ] :
        \/ p.patient_max_retry > 0
        \/ p.accelerated_max_retry > 0
        \/ p.urgent_max_retry > 0
        \/ p.panic_max_retry > 0 }

(***************************************************************************)
(* SpecAO: one AdaptiveOrder whose methods are called in any order with    *)
(* any argument.                                                           *)
(***************************************************************************)
InitAO ==
    /\ NoGrid
    /\ NoSwing
    /\ contract = NoContract
    /\ \E p \in AOArgs : ao = AONew(p)
    /\ ao_ret = NoRet
    /\ bk = NoBroker

AO_Tick ==
    /\ UNCHANGED << gridVars, swingVars >>
    /\ \E c \in Quotes :
           /\ contract' = c
           /\ ao' = AOOnTick(ao, c).ao
           /\ ao_ret' = [sig |-> AOOnTick(ao, c).sig, params |-> AOOnTick(ao, c).params]
           /\ UNCHANGED bk

AO_Success ==
    /\ UNCHANGED << gridVars, swingVars >>
    /\ \E id \in 1..MaxOrderId, price \in {MidPrice, MidPrice + Tick} :
           /\ ao' = AOOnBuySellSuccess(ao, id, price)
           /\ ao_ret' = NoRet
           /\ UNCHANGED <<contract, bk>>

AO_Fail ==
    /\ UNCHANGED << gridVars, swingVars >>
    /\ ao' = AOOnBuySellFail(ao)
    /\ ao_ret' = NoRet
    /\ UNCHANGED <<contract, bk>>

AO_Trade ==
    /\ UNCHANGED << gridVars, swingVars >>
    /\ \E price \in {MidPrice}, qty \in 1..MaxQty :
           /\ ao.filled_qty + qty <= MaxQty + 1
           /\ ao' = AOOnTradeUpdate(ao, price, qty)
           /\ ao_ret' = NoRet
           /\ UNCHANGED <<contract, bk>>

AO_Status ==
    /\ UNCHANGED << gridVars, swingVars >>
    /\ \E st \in {ORDER_CLOSED, ORDER_REJECTED, ORDER_CANCELLED, ORDER_REPEAT_CANCEL} :
           /\ ao' = AOOnOrderStatus(ao, st)
           /\ ao_ret' = NoRet
           /\ UNCHANGED <<contract, bk>>

NextAO == AO_Tick \/ AO_Success \/ AO_Fail \/ AO_Trade \/ AO_Status

SpecAO == InitAO /\ [][NextAO]_vars

(***************************************************************************)
(* SpecAOB: one AdaptiveOrder driven by a broker that keeps the order      *)
(* protocol: the answer to a request first (accepted or refused), then     *)
(* trades for at most the accepted quantity, then one terminal status.     *)
(* Ticks interleave freely.  bk holds the request in flight or the live    *)
(* broker order.                                                           *)
(***************************************************************************)
IsQuote(r) == r.sig = ORDER_OPEN /\ r.params.action \in {BUY, SELL}

AOB_Tick ==
    /\ UNCHANGED << gridVars, swingVars >>
    /\ \E c \in Quotes :
           LET r == AOOnTick(ao, c) IN
           /\ contract' = c
           /\ ao' = r.ao
           /\ ao_ret' = [sig |-> r.sig, params |-> r.params]
           /\ bk' = IF IsQuote(r)
                    THEN [bk EXCEPT !.phase = "requested",
                                    !.price = Quantize(r.params.price),
                                    !.qty = r.params.qty, !.traded = 0]
                    ELSE bk

\* Strategy.on_buy / on_sell accepted by the broker.  on_buy lowers the
\* quantity of a Buy while the cash does not cover it (strategy.py 411-417).
AOB_Accept ==
    /\ UNCHANGED << gridVars, swingVars >>
    /\ bk.phase = "requested"
    /\ bk.id < MaxAcks
    /\ \E q \in 1..bk.qty :
        /\ (ao.buy_or_sell = SELL => q = bk.qty)
        /\ bk' = [bk EXCEPT !.phase = "live", !.id = @ + 1, !.qty = q,
                            !.status = "None"]
        /\ ao' = AOOnBuySellSuccess(ao, bk.id + 1, bk.price)
    /\ ao_ret' = NoRet
    /\ UNCHANGED contract

\* Price out of limits, not enough position, or the broker refuses.
AOB_Refuse ==
    /\ UNCHANGED << gridVars, swingVars >>
    /\ bk.phase = "requested"
    /\ bk' = [bk EXCEPT !.phase = "idle"]
    /\ ao' = AOOnBuySellFail(ao)
    /\ ao_ret' = NoRet
    /\ UNCHANGED contract

\* A trade of the live order, routed by order_id = last_order_id.
AOB_Trade ==
    /\ UNCHANGED << gridVars, swingVars >>
    /\ bk.phase = "live"
    /\ \E q \in 1..(bk.qty - bk.traded), price \in {bk.price, contract.last} :
        /\ bk' = [bk EXCEPT !.traded = @ + q]
        /\ ao' = IF bk.id = ao.last_order_id
                 THEN AOOnTradeUpdate(ao, price, q) ELSE ao
    /\ ao_ret' = NoRet
    /\ UNCHANGED contract

\* The terminal status of the live order; bk.status keeps it until the next
\* order is accepted.
AOB_Status ==
    /\ UNCHANGED << gridVars, swingVars >>
    /\ bk.phase = "live"
    /\ \E st \in {ORDER_CLOSED, ORDER_REJECTED, ORDER_CANCELLED, ORDER_REPEAT_CANCEL} :
        /\ ao' = IF bk.id = ao.last_order_id THEN AOOnOrderStatus(ao, st) ELSE ao
        /\ bk' = [bk EXCEPT !.phase = "idle", !.status = st]
    /\ ao_ret' = NoRet
    /\ UNCHANGED contract

NextAOB == AOB_Tick \/ AOB_Accept \/ AOB_Refuse \/ AOB_Trade \/ AOB_Status

\* The orders of SpecAOB: a subset of AOArgs that keeps every mode in play.
AOBArgs ==
    {p \in AOArgs : /\ p.direction = DIRECTION_LONG
                    /\ p.retry_step = 1
                    /\ p.urgent_max_retry = 0
                    /\ p.max_slippage = MaxSlip}

InitAOB ==
    /\ NoGrid
    /\ NoSwing
    /\ contract = NoContract
    /\ \E p \in AOBArgs : ao = AONew(p)
    /\ ao_ret = NoRet
    /\ bk = NoBroker

SpecAOB == InitAOB /\ [][NextAOB]_vars

(***************************************************************************)
(* Claims about AdaptiveOrder                                              *)
(***************************************************************************)

\* C1 (as stated): once the state is Filled or Cancelled, no call of on_tick,
\* on_buysell_success, on_buysell_fail, on_trade_update or on_order_status
\* changes it.
C1_TerminalAbsorbing ==
    [][ao.state \in {AO_FILLED, AO_CANCELLED} => ao'.state = ao.state]_vars

\* C3 (as stated): on_tick in Init with a non-empty stack and last equal to
\* price_bound goes to Cancelled and emits the Cancelled signal.
C3_CancelAtBound ==
    [][(AO_Tick /\ ao.state = AO_INIT /\ ao.stack # <<>>
          /\ contract'.last = ao.price_bound)
        => (ao'.state = AO_CANCELLED /\ ao_ret'.sig = ORDER_CANCELLED)]_vars

\* C3 (amended): on_tick in Init with a non-empty stack goes to Cancelled and
\* emits the Cancelled signal exactly when last is strictly beyond
\* price_bound on the unfavorable side, d * (last - price_bound) > 0; with
\* last equal to price_bound, or on its favorable side, it quotes (signal
\* Open, the order's own action) and goes to Req.
C3_QuoteAtBound ==
    [][(AO_Tick /\ ao.state = AO_INIT /\ ao.stack # <<>>)
        => LET diff == AOSign(ao) * (contract'.last - ao.price_bound) IN
           /\ diff > 0 => /\ ao'.state = AO_CANCELLED
                          /\ ao_ret'.sig = ORDER_CANCELLED
           /\ diff <= 0 => /\ ao'.state = AO_REQ
                           /\ ao_ret'.sig = ORDER_OPEN
                           /\ ao_ret'.params.action = ao.buy_or_sell]_vars

\* C3 witness: a quote was made on a tick whose last equals price_bound.
C3_Witness ==
    /\ ao.state = AO_REQ
    /\ IsQuote(ao_ret)
    /\ contract.last = ao.price_bound

\* The stack lists the modes from the most aggressive (bottom) to the least
\* aggressive (top).
StackOrdered(stack) ==
    \A i, j \in 1..Len(stack) :
        i < j => ModeRank(stack[i].mode) > ModeRank(stack[j].mode)

\* C4: across every operation the mode stack never gains an entry and no
\* entry's retry count increases; the entries stay ordered Panic, Urgent,
\* Accelerated, Patient from the bottom, so the mode on top, which is the
\* mode of every quote, only moves towards the more aggressive; and a quote
\* is made only in a mode whose retry count is > 0.
C4_StackMonotone ==
    [][/\ Len(ao'.stack) <= Len(ao.stack)
       /\ \A i \in 1..Len(ao'.stack) :
             /\ ao'.stack[i].mode = ao.stack[i].mode
             /\ ao'.stack[i].n <= ao.stack[i].n
       /\ StackOrdered(ao'.stack)
       /\ (ao.stack # <<>> /\ ao'.stack # <<>>)
             => ModeRank(AOTop(ao').mode) >= ModeRank(AOTop(ao).mode)
       /\ IsQuote(ao_ret') => (ao'.stack # <<>> /\ AOTop(ao').n > 0)]_vars

\* C4 witness: after a quote acknowledged in Patient mode the order quotes
\* again with Accelerated on top of a shorter stack.
C4_Witness ==
    /\ ao.last_order_mode = PATIENT
    /\ ao.stack # <<>>
    /\ AOTop(ao).mode = ACCELERATED
    /\ ao.state = AO_REQ
    /\ IsQuote(ao_ret)

\* C5: under the order protocol filled_qty never exceeds order_qty.
C5_FilledWithinTotal == ao.filled_qty <= ao.order_qty

\* C5 witness: the order was filled completely by the trades of two broker
\* orders (a partial fill, a cancel, a second quote for the remainder).
C5_Witness ==
    /\ ao.filled_qty = ao.order_qty
    /\ bk.id >= 2
    /\ bk.traded > 0
    /\ bk.traded < ao.order_qty
    /\ ao.state = AO_FILLED

\* The retries left on a stack: the sum of its entries' counts.
RECURSIVE RetrySum(_)
RetrySum(stack) ==
    IF stack = <<>> THEN 0
    ELSE stack[Len(stack)].n + RetrySum(SubSeq(stack, 1, Len(stack) - 1))

FiniteRetries(stack) == \A i \in DOMAIN stack : stack[i].n # Inf

\* C23: for an order with finite retry counts, every acknowledged broker
\* order consumes exactly one of the configured retries and nothing else
\* does, so the acknowledged orders (bk.id, 0 at construction) plus the
\* retries left stay equal to the sum of the configured counts and the
\* acknowledged orders never exceed that sum; the stack is empty exactly when
\* no retry is left, and on_tick in Init with the stack empty goes to
\* Cancelled and emits the Cancelled signal.
C23_RetriesBoundAcks ==
    [][/\ FiniteRetries(ao.stack)
            => /\ bk'.id + RetrySum(ao'.stack) = bk.id + RetrySum(ao.stack)
               /\ (ao'.stack = <<>>) <=> (RetrySum(ao'.stack) = 0)
       /\ (AOB_Tick /\ ao.state = AO_INIT /\ ao.stack = <<>>)
            => /\ ao'.state = AO_CANCELLED
               /\ ao_ret'.sig = ORDER_CANCELLED
               /\ ao_ret'.params = NoParams]_vars

\* C23 witness: every retry was consumed by an acknowledged order that was
\* cancelled short of a complete fill, and the tick after the last cancel, with
\* last within price_bound, found the stack empty and cancelled the order.
C23_Witness ==
    /\ ao.state = AO_CANCELLED
    /\ ao_ret.sig = ORDER_CANCELLED
    /\ ao.stack = <<>>
    /\ bk.id >= 2
    /\ bk.phase = "idle"
    /\ ao.filled_qty < ao.order_qty
    /\ ~AOCrossedBound(ao, contract)

\* C24: on_order_status in Pending makes the state Filled if the status is
\* Closed or filled_qty equals order_qty (whatever the status, Cancelled and
\* Rejected included) and Init otherwise, and changes nothing else; from Init
\* the next on_tick runs the Init branch again: unless it cancels (stack
\* empty, last beyond price_bound) it quotes at the price of the mode that is
\* on top of the stack now.
C24_StatusInPending ==
    [][/\ (AOB_Status /\ ao.state = AO_PENDING)
            => /\ ao'.state = IF bk'.status = ORDER_CLOSED \/ ao.filled_qty = ao.order_qty
                               THEN AO_FILLED ELSE AO_INIT
               /\ ao' = [ao EXCEPT !.state = ao'.state]
       /\ (AOB_Tick /\ ao.state = AO_INIT /\ bk.status # "None"
              /\ ao.stack # <<>> /\ ~AOCrossedBound(ao, contract'))
            => /\ ao'.state = AO_REQ
               /\ IsQuote(ao_ret')
               /\ ao_ret'.params.price = AOQuotePrice(ao, contract')]_vars

\* C24 witness: a live order that was filled completely got the status
\* Cancelled and the AdaptiveOrder is Filled.
C24_Witness ==
    /\ bk.status = ORDER_CANCELLED
    /\ bk.phase = "idle"
    /\ bk.traded = bk.qty
    /\ ao.filled_qty = ao.order_qty
    /\ ao.state = AO_FILLED

\* C25: on_buysell_success in Req makes the state Pending, stores the broker's
\* order id and price and the mode on top, lowers the retry count of the top
\* entry by one (an infinite count stays infinite) and leaves every other
\* entry's count alone; the new stack is the old one cut from the top down to
\* the first entry whose count is still > 0; no other field changes.
\* on_buysell_fail in Req makes the state Init and changes nothing else, so
\* the stack, and with it the mode of the next quote, is the same.
C25_AckHandling ==
    [][/\ (AOB_Accept /\ ao.state = AO_REQ)
            => LET top == Len(ao.stack)
                   left == IF ao.stack[top].n = Inf THEN Inf ELSE ao.stack[top].n - 1
                   After(i) == IF i = top
                               THEN [mode |-> ao.stack[i].mode, n |-> left]
                               ELSE ao.stack[i]
               IN  /\ ao'.state = AO_PENDING
                   /\ ao'.last_order_id = bk'.id
                   /\ ao'.last_order_price = bk.price
                   /\ ao'.last_order_mode = ao.stack[top].mode
                   /\ Len(ao'.stack) <= top
                   /\ \A i \in 1..Len(ao'.stack) : ao'.stack[i] = After(i)
                   /\ \A i \in (Len(ao'.stack) + 1)..top : After(i).n <= 0
                   /\ ao'.stack # <<>> => AOTop(ao').n > 0
                   /\ ao' = [ao EXCEPT !.state = ao'.state,
                                       !.last_order_id = ao'.last_order_id,
                                       !.last_order_price = ao'.last_order_price,
                                       !.last_order_mode = ao'.last_order_mode,
                                       !.stack = ao'.stack]
       /\ (AOB_Refuse /\ ao.state = AO_REQ)
            => ao' = [ao EXCEPT !.state = AO_INIT]]_vars

\* C25 witness: the acknowledgement of the only Patient quote emptied the
\* Patient entry and the exhausted entries under it: Panic is on top.
C25_Witness ==
    /\ ao.state = AO_PENDING
    /\ bk.phase = "live"
    /\ ao.last_order_id = bk.id
    /\ ao.last_order_mode = PATIENT
    /\ Len(ao.stack) = 1
    /\ AOTop(ao).mode = PANIC

\* C26: on_tick in Pending returns a Cancel that carries last_order_id if
\* d * (last - last_order_price) >= retry_step * tick or
\* d * (last - price_bound) > 0, and returns nothing otherwise; either way
\* the order itself, its state and its stack included, is unchanged.  The
\* state leaves Pending only in an order-status callback.
C26_PendingTick ==
    [][/\ (AOB_Tick /\ ao.state = AO_PENDING)
            => LET d == 1 - 2 * ao.long_short
                   last == contract'.last
                   slipped == d * (last - ao.last_order_price) >= ao.retry_step * Tick
                   crossed == d * (last - ao.price_bound) > 0
               IN  /\ ao' = ao
                   /\ bk' = bk
                   /\ (slipped \/ crossed)
                        => /\ ao_ret'.sig = ORDER_OPEN
                           /\ ao_ret'.params = [action |-> "CANCEL",
                                                order_id |-> ao.last_order_id]
                   /\ ~(slipped \/ crossed) => ao_ret' = NoRet
       /\ (ao.state = AO_PENDING /\ ao'.state # AO_PENDING) => AOB_Status]_vars

\* C26 witness: a Cancel was returned for a pending order on a tick that
\* slipped by exactly retry_step ticks and is still within price_bound.
C26_Witness ==
    /\ ao.state = AO_PENDING
    /\ ao_ret.sig = ORDER_OPEN
    /\ ao_ret.params.action = "CANCEL"
    /\ ao_ret.params.order_id = bk.id
    /\ AOSign(ao) * (contract.last - ao.last_order_price) = ao.retry_step * Tick
    /\ AOSign(ao) * (contract.last - ao.price_bound) <= 0

\* C27: on_tick in Init that does not cancel (stack not empty, last not
\* beyond price_bound) returns the signal Open with the order's action,
\* direction and tag and the quantity order_qty - filled_qty, the part no
\* trade has filled yet, and makes the state Req, changing nothing else;
\* on_tick in Req returns no signal and no params and changes nothing.
C27_InitQuote ==
    [][/\ (AOB_Tick /\ ao.state = AO_INIT /\ ao.stack # <<>>
              /\ (1 - 2 * ao.long_short) * (contract'.last - ao.price_bound) <= 0)
            => /\ ao_ret'.sig = ORDER_OPEN
               /\ ao_ret'.params.action = ao.buy_or_sell
               /\ ao_ret'.params.direction = ao.direction
               /\ ao_ret'.params.tag = ao.order_tag
               /\ ao_ret'.params.qty = ao.order_qty - ao.filled_qty
               /\ ao' = [ao EXCEPT !.state = AO_REQ]
               /\ bk'.phase = "requested"
               /\ bk'.qty = ao.order_qty - ao.filled_qty
       /\ (AOB_Tick /\ ao.state = AO_REQ)
            => /\ ao_ret' = NoRet
               /\ ao' = ao
               /\ bk' = bk]_vars

\* C27 witness: after a first broker order was filled in part and cancelled,
\* the order quoted the remainder, and a further tick in Req returned nothing.
C27_Witness ==
    /\ ao.state = AO_REQ
    /\ ao_ret = NoRet
    /\ bk.phase = "requested"
    /\ bk.status = ORDER_CANCELLED
    /\ bk.id >= 1
    /\ ao.filled_qty > 0
    /\ bk.qty = ao.order_qty - ao.filled_qty
    /\ bk.qty < ao.order_qty

\* The midpoint of bid and ask on the tick grid, a tie going to the even
\* number of ticks (Python's round).
C28_Mid(c) ==
    LET twice == c.bid + c.ask          \* 2 * midpoint, in units
        k == twice \div (2 * Tick)
        r == twice % (2 * Tick)
    IN  Tick * (IF r < Tick THEN k
                ELSE IF r > Tick THEN k + 1
                ELSE IF k % 2 = 0 THEN k ELSE k + 1)

RECURSIVE GCD(_, _)
GCD(a, b) == IF b = 0 THEN a ELSE GCD(b, a % b)

Rat(n, d) == LET g == GCD(Abs(n), d) IN [n |-> n \div g, d |-> d \div g]

RatInt(i) == [n |-> i, d |-> 1]

RatAdd(a, b) == Rat(a.n * b.d + b.n * a.d, a.d * b.d)

RatMulInt(a, i) == Rat(a.n * i, a.d)

RatDivInt(a, i) == IF i > 0 THEN Rat(a.n, a.d * i) ELSE Rat(0 - a.n, a.d * (0 - i))

RatGt(a, b) == a.n * b.d > b.n * a.d

ActionInt(buy_or_sell) == IF buy_or_sell = BUY THEN 0 ELSE 1

DirInt(direction) == IF direction = DIRECTION_LONG THEN 0 ELSE 1

Reverse(direction) == IF direction = DIRECTION_LONG THEN DIRECTION_SHORT ELSE DIRECTION_LONG

Leg(action, direction, price, qty, tag) == [action |-> action, direction |-> direction, price |-> price, qty |-> qty, tag |-> tag]

\* Variant: the Buy leg is not reduced by the quantity that is closed.
CalcOrderParams_FullBuy(buy_or_sell, direction, order_price, order_qty, order_tag, pa, par) ==
    LET sell_direction == IF buy_or_sell = SELL THEN direction ELSE Reverse(direction)
        buy_direction == IF buy_or_sell = SELL THEN Reverse(direction) ELSE direction
        position_for_sell == IF buy_or_sell = SELL THEN pa ELSE par
        sell_qty == Min(position_for_sell, order_qty)
        buy_qty == IF order_qty > position_for_sell THEN order_qty ELSE 0
    IN [legs |-> << Leg(SELL, sell_direction, order_price, sell_qty, order_tag),
                    Leg(BUY, buy_direction, order_price, buy_qty, order_tag) >>,
        pa |-> IF buy_or_sell = SELL THEN pa - sell_qty ELSE pa,
        par |-> IF buy_or_sell = SELL THEN par ELSE par - sell_qty,
        split |-> (sell_qty > 0 /\ buy_qty > 0)]

\* calc_order_params with long_short = True and both positions given: the
\* two legs, the availabilities left, and whether the order is split.
CalcOrderParams(buy_or_sell, direction, order_price, order_qty, order_tag, pa, par) ==
    LET sell_direction == IF buy_or_sell = SELL THEN direction ELSE Reverse(direction)
        buy_direction == IF buy_or_sell = SELL THEN Reverse(direction) ELSE direction
        position_for_sell == IF buy_or_sell = SELL THEN pa ELSE par
        sell_qty == Min(position_for_sell, order_qty)
        buy_qty == Max(0, order_qty - position_for_sell)
    IN [legs |-> << Leg(SELL, sell_direction, order_price, sell_qty, order_tag),
                    Leg(BUY, buy_direction, order_price, buy_qty, order_tag) >>,
        pa |-> IF buy_or_sell = SELL THEN pa - sell_qty ELSE pa,
        par |-> IF buy_or_sell = SELL THEN par ELSE par - sell_qty,
        split |-> (sell_qty > 0 /\ buy_qty > 0)]

\* update_position_avg_price_2way with the gain taken on the whole traded
\* quantity instead of min(abs(position_qty), abs(trade_qty)).
Update2Way_WholeQty(cma_price, position_qty, trade_action, trade_direction, trade_price, trade_qty) ==
    LET qty == IF trade_action # trade_direction THEN 0 - trade_qty ELSE trade_qty
        position_qty_new == position_qty + qty
        cma_price_new ==
            IF position_qty_new = 0 THEN RatInt(0)
            ELSE IF position_qty = 0 \/ ((position_qty > 0) # (position_qty_new > 0))
                 THEN RatInt(trade_price)
            ELSE IF (position_qty > 0) = (qty > 0)
                 THEN RatDivInt(RatAdd(RatMulInt(cma_price, position_qty), RatInt(trade_price * qty)), position_qty_new)
            ELSE cma_price
        realized_gain ==
            IF position_qty # 0 /\ ((position_qty > 0) # (qty > 0))
            THEN RatMulInt(RatAdd(RatInt(trade_price), RatMulInt(cma_price, 0 - 1)),
                           (IF position_qty > 0 THEN 1 ELSE 0 - 1) * Abs(qty))
            ELSE RatInt(0)
    IN [cma_price |-> cma_price_new, position_qty |-> position_qty_new, realized_gain |-> realized_gain]

\* update_position_avg_price_2way with the average price kept when the
\* position changes sign.
Update2Way_KeepOnFlip(cma_price, position_qty, trade_action, trade_direction, trade_price, trade_qty) ==
    LET qty == IF trade_action # trade_direction THEN 0 - trade_qty ELSE trade_qty
        position_qty_new == position_qty + qty
        cma_price_new ==
            IF position_qty_new = 0 THEN RatInt(0)
            ELSE IF position_qty = 0
                 THEN RatInt(trade_price)
            ELSE IF (position_qty > 0) = (qty > 0)
                 THEN RatDivInt(RatAdd(RatMulInt(cma_price, position_qty), RatInt(trade_price * qty)), position_qty_new)
            ELSE cma_price
        realized_gain ==
            IF position_qty # 0 /\ ((position_qty > 0) # (qty > 0))
            THEN RatMulInt(RatAdd(RatInt(trade_price), RatMulInt(cma_price, 0 - 1)),
                           (IF position_qty > 0 THEN 1 ELSE 0 - 1) * Min(Abs(position_qty), Abs(qty)))
            ELSE RatInt(0)
    IN [cma_price |-> cma_price_new, position_qty |-> position_qty_new, realized_gain |-> realized_gain]

\* update_position_avg_price_2way: the new average price, the new signed
\* position and the realized gain (not scaled by the contract unit).
Update2Way(cma_price, position_qty, trade_action, trade_direction, trade_price, trade_qty) ==
    LET qty == IF trade_action # trade_direction THEN 0 - trade_qty ELSE trade_qty
        position_qty_new == position_qty + qty
        cma_price_new ==
            IF position_qty_new = 0 THEN RatInt(0)
            ELSE IF position_qty = 0 \/ ((position_qty > 0) # (position_qty_new > 0))
                 THEN RatInt(trade_price)
            ELSE IF (position_qty > 0) = (qty > 0)
                 THEN RatDivInt(RatAdd(RatMulInt(cma_price, position_qty), RatInt(trade_price * qty)), position_qty_new)
            ELSE cma_price
        realized_gain ==
            IF position_qty # 0 /\ ((position_qty > 0) # (qty > 0))
            THEN RatMulInt(RatAdd(RatInt(trade_price), RatMulInt(cma_price, 0 - 1)),
                           (IF position_qty > 0 THEN 1 ELSE 0 - 1) * Min(Abs(position_qty), Abs(qty)))
            ELSE RatInt(0)
    IN [cma_price |-> cma_price_new, position_qty |-> position_qty_new, realized_gain |-> realized_gain]

(***************************************************************************)
(* GridOsc (grid_osc_strategy.py).  Python's two-element lists bounds,     *)
(* ext, qa, qn, peak, position_qty_caps and order_qty_caps are tuples      *)
(* indexed by direction + 1.                                               *)
(***************************************************************************)
G_INIT == "INIT"
G_REQ == "REQ"
G_SPLIT == "SPLIT"

Unit == 1

Sign(direction) == 1 - 2 * direction

\* Variant: the quotient rounded down.
CeilDiv_Floor(a, b) == a \div b

CeilDiv(a, b) == 0 - ((0 - a) \div b)

KProfitTh(bounds, n_grids, qa, k, qn) == (bounds[2] - bounds[1]) * (n_grids * Min(qa[1], qa[2]) + k * Min(qn[1], qn[2])) * Unit

GNew(p) ==
    LET bounds == << p.low_bound, RoundDecimal(p.low_bound + p.n_grids * p.grid_height) >> IN
    [tag |-> p.tag,
     n_grids |-> p.n_grids,
     ph |-> p.grid_height,
     bounds |-> bounds,
     ext |-> << p.low_ext, p.high_ext >>,
     pt |-> p.trail_amt,
     qa |-> << p.qty_base_long, p.qty_base_short >>,
     qn |-> << p.qty_offset_long, p.qty_offset_short >>,
     order_qty_scaling |-> p.qty_base_scaling,
     position_qty_caps |-> << p.position_qty_cap_min, p.position_qty_cap_max >>,
     order_qty_caps |-> << p.order_qty_cap_long, p.order_qty_cap_short >>,
     state |-> G_INIT,
     last_order_price |-> p.last_order_price,
     peak |-> << p.last_order_price, p.last_order_price >>,
     position_qty |-> 0,
     cma_price |-> RatInt(0),
     k |-> p.k_init,
     k_profit |-> RatInt(0),
     k_profit_th |-> KProfitTh(bounds, p.n_grids, << p.qty_base_long, p.qty_base_short >>, p.k_init,
                               << p.qty_offset_long, p.qty_offset_short >>)]

\* Variant: the peaks are kept.
GUpdateLastOrderPrice_KeepPeak(z, last_order_price) ==
    [z EXCEPT !.last_order_price = last_order_price]

\* GridOsc._update_last_order_price
GUpdateLastOrderPrice(z, last_order_price) ==
    [z EXCEPT !.last_order_price = last_order_price,
              !.peak = << last_order_price, last_order_price >>]

\* The number of grids _zone_expand adds on the side `direction`.
GridsExt(z, direction, price) == CeilDiv(Sign(direction) * (z.bounds[direction + 1] - price), z.ph)

GExpandSide(z, direction, price) ==
    LET n_grids_ext == GridsExt(z, direction, price)
        n_grids == z.n_grids + n_grids_ext
        bounds == [z.bounds EXCEPT ![direction + 1] = RoundDecimal(@ - Sign(direction) * n_grids_ext * z.ph)]
    IN [z EXCEPT !.n_grids = n_grids,
                 !.bounds = bounds,
                 !.k_profit_th = KProfitTh(bounds, n_grids, z.qa, z.k, z.qn)]

GNeedsExpand(z, direction, price) ==
    z.ext[direction + 1] /\ Sign(direction) * (price - z.bounds[direction + 1]) < 0

GZoneExpand(z, price) ==
    IF GNeedsExpand(z, 0, price) THEN GExpandSide(z, 0, price)
    ELSE IF GNeedsExpand(z, 1, price) THEN GExpandSide(z, 1, price)
    ELSE z

GOnTickUpdate(z, price) ==
    LET z1 == [z EXCEPT !.peak = << Min(z.peak[1], price), Max(z.peak[2], price) >>] IN
    IF z.ext[1] \/ z.ext[2] THEN GZoneExpand(z1, price) ELSE z1

\* Variant: no headroom limit.
GPosQtyCaps_None(z, position_qty) == << Inf, Inf >>

\* The headroom against position_qty_caps for long and short orders.
GPosQtyCaps(z, position_qty) == << z.position_qty_caps[2] - position_qty, position_qty - z.position_qty_caps[1] >>

GTriggered(z, direction, trade_price) ==
    /\ RoundDecimal(Sign(direction) * (z.last_order_price - trade_price)) >= z.ph
    /\ RoundDecimal(Sign(direction) * (trade_price - z.peak[direction + 1])) >= z.pt

\* Variant: the base quantity is scaled whatever order_qty_scaling says.
GOrderQty_Scaled(z, direction, trade_price, position_qty) ==
    LET scale == (Sign(direction) * (z.last_order_price - trade_price)) \div z.ph
        order_qty == IF scale > 0 THEN scale * z.qa[direction + 1] + z.k * z.qn[direction + 1] ELSE 0
    IN Min(Min(order_qty, GPosQtyCaps(z, position_qty)[direction + 1]), z.order_qty_caps[direction + 1])

GOrderQty(z, direction, trade_price, position_qty) ==
    LET scale0 == (Sign(direction) * (z.last_order_price - trade_price)) \div z.ph
        scale == IF z.order_qty_scaling THEN scale0 ELSE Min(1, scale0)
        order_qty == IF scale > 0 THEN scale * z.qa[direction + 1] + z.k * z.qn[direction + 1] ELSE 0
    IN Min(Min(order_qty, GPosQtyCaps(z, position_qty)[direction + 1]), z.order_qty_caps[direction + 1])

\* Variant: a split order is not told apart.
GStateAfterIntent_Req(is_order_split) == G_REQ

\* The state after an intent was made.
GStateAfterIntent(is_order_split) == IF is_order_split THEN G_SPLIT ELSE G_REQ

GIntent(z, direction, trade_price, position_long, position_short) ==
    LET order_qty == GOrderQty(z, direction, trade_price, position_long - position_short)
        r == CalcOrderParams(IF direction = 0 THEN BUY ELSE SELL, DIRECTION_LONG, trade_price, order_qty, z.tag,
                             position_long, position_short)
    IN IF GTriggered(z, direction, trade_price) /\ order_qty > 0
       THEN [made |-> TRUE, zone |-> [z EXCEPT !.state = GStateAfterIntent(r.split)],
             legs |-> r.legs, position_long |-> r.pa, position_short |-> r.par]
       ELSE [made |-> FALSE, zone |-> z, legs |-> <<>>,
             position_long |-> position_long, position_short |-> position_short]

GOnTickTrade(z, trade_price, position_long, position_short) ==
    LET none == [made |-> FALSE, zone |-> z, legs |-> <<>>,
                 position_long |-> position_long, position_short |-> position_short]
        buy == GIntent(z, 0, trade_price, position_long, position_short)
        sell == GIntent(z, 1, trade_price, position_long, position_short)
    IN IF z.state \in {G_REQ, G_SPLIT} THEN none
       ELSE IF buy.made THEN buy
       ELSE IF sell.made THEN sell
       ELSE none

\* Variant: one acknowledgement ends the wait, also for a split order.
GAck_Init(state) == G_INIT

\* The state after an acknowledgement (on_buy_sell_fail, on_buy_sell_success).
GAck(state) == IF state = G_SPLIT THEN G_REQ ELSE IF state = G_REQ THEN G_INIT ELSE state

GOnBuySellFail(z) == [z EXCEPT !.state = GAck(z.state)]

GOnBuySellSuccess(z, order_price) == GUpdateLastOrderPrice([z EXCEPT !.state = GAck(z.state)], order_price)

GOnTradeUpdate(z, trade_action, trade_direction, trade_price, trade_qty) ==
    LET u == Update2Way(z.cma_price, z.position_qty, trade_action, trade_direction, trade_price, trade_qty)
        k_profit == RatAdd(z.k_profit, RatMulInt(u.realized_gain, Unit))
        raise == RatGt(k_profit, RatInt(z.k_profit_th))
    IN [z EXCEPT !.cma_price = u.cma_price,
                 !.position_qty = u.position_qty,
                 !.k = IF raise THEN @ + 1 ELSE @,
                 !.k_profit = IF raise THEN RatInt(0) ELSE k_profit,
                 !.k_profit_th = IF raise
                                 THEN @ + (z.bounds[2] - z.bounds[1]) * Min(z.qn[1], z.qn[2]) * Unit
                                 ELSE @]

(***************************************************************************)
(* SpecGrid: one GridOsc zone whose methods are called in any order with   *)
(* any price, position and trade.                                          *)
(***************************************************************************)
MaxK == 1
MaxZonePos == 1
MaxProfit == 2

NoGridRet == [legs |-> <<>>, trade_price |-> None, position_long |-> 0, position_short |-> 0]

\* Constructor arguments.  The first family varies the grid geometry (a low
\* bound and a grid height on and off the price resolution, both extension
\* flags), the second the quantities and caps.
GridArgsBase ==
    [tag |-> "Z", low_bound |-> Tick, n_grids |-> 1, grid_height |-> Tick,
     low_ext |-> FALSE, high_ext |-> FALSE, trail_amt |-> 0,
     qty_base_long |-> 1, qty_base_short |-> 1, qty_offset_long |-> 0, qty_offset_short |-> 0,
     last_order_price |-> MidPrice, k_init |-> 0, qty_base_scaling |-> TRUE,
     position_qty_cap_min |-> 0 - Inf, position_qty_cap_max |-> Inf,
     order_qty_cap_long |-> Inf, order_qty_cap_short |-> Inf]

GridArgsGeometry ==
    {[GridArgsBase EXCEPT !.low_bound = lb, !.grid_height = ph, !.low_ext = e[1], !.high_ext = e[2]] :
        lb \in {Tick, Tick + 1}, ph \in {Tick, Tick + 1},
        e \in {<< TRUE, FALSE >>, << FALSE, TRUE >>, << TRUE, TRUE >>}}

GridArgsQty ==
    {[GridArgsBase EXCEPT !.trail_amt = t[1], !.qty_base_short = MaxQty, !.qty_offset_long = t[2],
                          !.qty_offset_short = t[2], !.k_init = t[2],
                          !.qty_base_scaling = c[1], !.order_qty_cap_long = c[2],
                          !.position_qty_cap_min = pc[1], !.position_qty_cap_max = pc[2]] :
        t \in {<< 0, 0 >>, << Tick, 1 >>},
        c \in {<< TRUE, Inf >>, << FALSE, 1 >>},
        pc \in {<< 0 - Inf, Inf >>, << 0, 1 >>}}

InitGrid ==
    /\ NoAO
    /\ NoSwing
    /\ g_args \in GridArgsGeometry \cup GridArgsQty
    /\ zone = GNew(g_args)
    /\ g_ret = NoGridRet

G_TickUpdate ==
    \E price \in Prices :
        /\ zone' = GOnTickUpdate(zone, price)
        /\ g_ret' = NoGridRet
        /\ UNCHANGED << aoVars, g_args, swingVars >>

G_TickTrade ==
    \E trade_price \in Prices, position_long \in {0, MaxQty}, position_short \in {0, 1} :
        LET r == GOnTickTrade(zone, trade_price, position_long, position_short) IN
        /\ zone' = r.zone
        /\ g_ret' = IF r.made
                    THEN [legs |-> r.legs, trade_price |-> trade_price,
                          position_long |-> position_long, position_short |-> position_short]
                    ELSE NoGridRet
        /\ UNCHANGED << aoVars, g_args, swingVars >>

G_Success ==
    \E order_price \in Prices :
        /\ zone' = GOnBuySellSuccess(zone, order_price)
        /\ g_ret' = NoGridRet
        /\ UNCHANGED << aoVars, g_args, swingVars >>

G_Fail ==
    /\ zone' = GOnBuySellFail(zone)
    /\ g_ret' = NoGridRet
    /\ UNCHANGED << aoVars, g_args, swingVars >>

G_TradeUpdate ==
    \E a \in {0, 1}, d \in {0, 1}, trade_price \in {MidPrice, MidPrice + Tick}, trade_qty \in 1..MaxZonePos :
        LET z == GOnTradeUpdate(zone, a, d, trade_price, trade_qty) IN
        /\ z.position_qty \in 0..MaxZonePos
        /\ z.k <= MaxK
        /\ Abs(z.k_profit.n) <= MaxProfit * z.k_profit.d
        /\ zone' = z
        /\ g_ret' = NoGridRet
        /\ UNCHANGED << aoVars, g_args, swingVars >>

NextGrid == G_TickUpdate \/ G_TickTrade \/ G_Success \/ G_Fail \/ G_TradeUpdate

SpecGrid == InitGrid /\ [][NextGrid]_vars

(***************************************************************************)
(* Claims about GridOsc                                                    *)
(***************************************************************************)
\* +1 for a leg that raises the net position (Buy long, Sell short), -1 for
\* one that lowers it.
LegSign(leg) == IF (leg.action = BUY) = (leg.direction = DIRECTION_LONG) THEN 1 ELSE 0 - 1

PositiveLegs(legs) == {i \in 1..Len(legs) : legs[i].qty > 0}

\* The sign of the grid order the legs were made for, and its quantity.
IntentSign(legs) == IF legs[2].direction = DIRECTION_LONG THEN 1 ELSE 0 - 1

IntentQty(legs) == legs[1].qty + legs[2].qty

OnGrid(p) == p % Tick = 0

\* C6: in every reachable zone state and for every price and position,
\* on_tick_trade in Req or Split returns no legs and leaves the zone as it
\* is; in Init the legs with qty > 0 all belong to one direction, only the
\* state field changes, and it becomes Split with two positive legs, Req with
\* one, and stays Init when nothing is returned.
C6_TickTradeStates ==
    \A trade_price \in Prices, position_long \in 0..MaxQty, position_short \in 0..MaxQty :
        LET r == GOnTickTrade(zone, trade_price, position_long, position_short)
            pos == PositiveLegs(r.legs)
        IN /\ zone.state \in {G_REQ, G_SPLIT} => (r.legs = <<>> /\ r.zone = zone)
           /\ zone.state = G_INIT =>
                /\ \A i, j \in pos : LegSign(r.legs[i]) = LegSign(r.legs[j])
                /\ [r.zone EXCEPT !.state = G_INIT] = zone
                /\ Cardinality(pos) = 2 => r.zone.state = G_SPLIT
                /\ Cardinality(pos) = 1 => r.zone.state = G_REQ
                /\ Cardinality(pos) = 0 => (r.zone.state = G_INIT /\ r.legs = <<>>)

\* C6 witness: an intent with two positive legs was returned and the zone is
\* in Split.
C6_Witness ==
    /\ zone.state = G_SPLIT
    /\ Len(g_ret.legs) = 2
    /\ Cardinality(PositiveLegs(g_ret.legs)) = 2

\* C7 (as stated): whenever on_tick_trade emits an intent of total qty q > 0
\* with sign d, (position_long - position_short) + d*q lies within
\* position_qty_caps and q <= order_qty_caps[direction]; with headroom <= 0
\* nothing is emitted.
C7_ProjectedWithinCaps ==
    \A trade_price \in Prices, position_long \in 0..MaxQty, position_short \in 0..MaxQty :
        LET r == GOnTickTrade(zone, trade_price, position_long, position_short)
            position_qty == position_long - position_short
        IN r.legs # <<>> =>
             LET d == IntentSign(r.legs)
                 q == IntentQty(r.legs)
             IN /\ zone.position_qty_caps[1] <= position_qty + d * q
                /\ position_qty + d * q <= zone.position_qty_caps[2]
                /\ q <= zone.order_qty_caps[IF d = 1 THEN 1 ELSE 2]

\* C7 (amended): an emitted intent has q > 0 and never passes the cap on the
\* side it moves to: position + q <= cap max for a buy, position - q >= cap
\* min for a sell, so the projected position lies within the caps whenever
\* the current position does; q <= order_qty_caps[direction]; and with
\* headroom <= 0 on a side nothing is emitted for that side.
C7_ProjectedWithinCapOfSide ==
    \A trade_price \in Prices, position_long \in 0..MaxQty, position_short \in 0..MaxQty :
        LET r == GOnTickTrade(zone, trade_price, position_long, position_short)
            position_qty == position_long - position_short
            caps == zone.position_qty_caps
        IN r.legs # <<>> =>
             LET d == IntentSign(r.legs)
                 q == IntentQty(r.legs)
             IN /\ q > 0
                /\ d = 1 => (position_qty + q <= caps[2] /\ caps[2] - position_qty > 0)
                /\ d = 0 - 1 => (position_qty - q >= caps[1] /\ position_qty - caps[1] > 0)
                /\ (caps[1] <= position_qty /\ position_qty <= caps[2])
                     => (caps[1] <= position_qty + d * q /\ position_qty + d * q <= caps[2])
                /\ q <= zone.order_qty_caps[IF d = 1 THEN 1 ELSE 2]

\* C7 witness: a buy intent was emitted whose quantity is exactly the
\* headroom under a finite cap max.
C7_Witness ==
    /\ g_ret.legs # <<>>
    /\ IntentSign(g_ret.legs) = 1
    /\ zone.position_qty_caps[2] # Inf
    /\ g_ret.position_long - g_ret.position_short + IntentQty(g_ret.legs) = zone.position_qty_caps[2]

\* C9 (as stated): bounds[1] - bounds[0] = n_grids * p_h in every state.
C9_WidthExact == zone.bounds[2] - zone.bounds[1] = zone.n_grids * zone.ph

\* C9 (amended): bounds[0] < bounds[1] and n_grids never decreases; the width
\* is n_grids * p_h when low_bound and p_h are multiples of the price
\* resolution (otherwise the rounding of the bounds makes it differ); and for
\* every tick price on_tick_update moves a bound only on a side whose ext
\* flag is set, one side per call, outward, to the old bound moved by the
\* added grids times p_h and rounded to the price resolution, so that the
\* price lies within the bounds on that side.
C9_BoundsExtendOutward ==
    /\ zone.bounds[1] < zone.bounds[2]
    /\ zone.n_grids >= g_args.n_grids
    /\ (OnGrid(g_args.low_bound) /\ OnGrid(zone.ph))
         => zone.bounds[2] - zone.bounds[1] = zone.n_grids * zone.ph
    /\ \A price \in Prices :
         LET z2 == GOnTickUpdate(zone, price) IN
         /\ z2.n_grids >= zone.n_grids
         /\ z2.bounds = zone.bounds => z2.n_grids = zone.n_grids
         /\ \A direction \in {0, 1} :
              z2.bounds[direction + 1] # zone.bounds[direction + 1] =>
                /\ zone.ext[direction + 1]
                /\ z2.bounds[2 - direction] = zone.bounds[2 - direction]
                /\ Sign(direction) * (z2.bounds[direction + 1] - zone.bounds[direction + 1]) < 0
                /\ 2 * Abs(z2.bounds[direction + 1] - (zone.bounds[direction + 1]
                       - Sign(direction) * (z2.n_grids - zone.n_grids) * zone.ph)) <= Tick
                /\ Sign(direction) * (price - z2.bounds[direction + 1]) >= 0

\* C9 witness: a zone whose grid height is off the price resolution was
\* extended and its width is not n_grids * p_h.
C9_Witness ==
    /\ zone.n_grids > g_args.n_grids
    /\ ~OnGrid(zone.ph)
    /\ zone.bounds[2] - zone.bounds[1] # zone.n_grids * zone.ph

\* C29: the zone leaves Split only in an acknowledgement (on_buy_sell_success
\* or on_buy_sell_fail) and only to Req, and leaves Req only in an
\* acknowledgement and only to Init; it enters Split only from Init in an
\* on_tick_trade that returns two positive legs, and Req from Init only in one
\* that returns a single positive leg.  So Init is reached again after two
\* acknowledgements of a split order and after one of a single-leg order, in
\* any combination of success and fail.  In Req and in Split every
\* on_tick_trade returns nothing and leaves the zone as it is.
C29_AckProtocol ==
    [][/\ (zone.state = G_SPLIT /\ zone'.state # G_SPLIT)
            => ((G_Success \/ G_Fail) /\ zone'.state = G_REQ)
       /\ (zone.state = G_REQ /\ zone'.state # G_REQ)
            => ((G_Success \/ G_Fail) /\ zone'.state = G_INIT)
       /\ ((G_Success \/ G_Fail) /\ zone.state = G_SPLIT) => zone'.state = G_REQ
       /\ ((G_Success \/ G_Fail) /\ zone.state = G_REQ) => zone'.state = G_INIT
       /\ (zone.state = G_INIT /\ zone'.state = G_SPLIT)
            => (G_TickTrade /\ Cardinality(PositiveLegs(g_ret'.legs)) = 2)
       /\ (zone.state = G_INIT /\ zone'.state = G_REQ)
            => (G_TickTrade /\ Cardinality(PositiveLegs(g_ret'.legs)) = 1)
       /\ (G_TickTrade /\ zone.state \in {G_REQ, G_SPLIT})
            => (zone' = zone /\ g_ret' = NoGridRet)]_vars

\* C29 witness: a zone in Req whose last call returned no legs and whose
\* last_order_price an accepted order has set: one leg is still to be
\* acknowledged.
C29_Witness ==
    /\ zone.state = G_REQ
    /\ g_ret = NoGridRet
    /\ zone.last_order_price # g_args.last_order_price
    /\ zone.peak = << zone.last_order_price, zone.last_order_price >>

\* Split -> Req, Req -> Init, Init stays.
C30_After(st) ==
    CASE st = G_SPLIT -> G_REQ
      [] st = G_REQ -> G_INIT
      [] OTHER -> st

\* C30: in every reachable zone state, on_buy_sell_success(price) sets
\* last_order_price to price and both peaks to price, and on_buy_sell_fail
\* leaves them as they are; besides, both change the state field only
\* (Split to Req, Req to Init, Init stays): bounds, n_grids, k, k_profit, the
\* zone's position and cma price are unchanged.  Every step of the two
\* callbacks is one of these.
C30_AckFrame ==
    /\ [](\A price \in Prices :
             LET z == GOnBuySellSuccess(zone, price) IN
             /\ z.last_order_price = price
             /\ z.peak = << price, price >>
             /\ z = [zone EXCEPT !.state = C30_After(zone.state),
                                 !.last_order_price = price,
                                 !.peak = << price, price >>])
    /\ [](GOnBuySellFail(zone) = [zone EXCEPT !.state = C30_After(zone.state)])
    /\ [][/\ G_Fail => zone' = [zone EXCEPT !.state = C30_After(zone.state)]
          /\ G_Success
               => /\ zone'.peak = << zone'.last_order_price, zone'.last_order_price >>
                  /\ zone' = [zone EXCEPT !.state = C30_After(zone.state),
                                          !.last_order_price = zone'.last_order_price,
                                          !.peak = zone'.peak]]_vars

\* C30 witness: the acknowledgement of an accepted order has set
\* last_order_price and both peaks to a price that is not the constructor's,
\* in a zone that had extended its bounds, and the zone is in Init.
C30_Witness ==
    /\ zone.state = G_INIT
    /\ g_ret = NoGridRet
    /\ zone.n_grids > g_args.n_grids
    /\ zone.last_order_price # g_args.last_order_price
    /\ zone.peak = << zone.last_order_price, zone.last_order_price >>

\* C31: on_tick_trade in Init emits an intent with sign d exactly when
\* d*(last_order_price - last) >= p_h, d*(last - peak[direction]) >= p_t and
\* the clamped quantity is positive; the unclamped quantity is
\* scale*qa[direction] + k*qn[direction] with scale the floor of
\* d*(last_order_price - last)/p_h, taken as 1 when qty_base_scaling is
\* false; the emitted quantity is that one clamped by the position headroom
\* and the order cap; with last less than one grid from last_order_price
\* nothing is emitted and the zone stays as it is, in Init.
C31_TriggerAndQty ==
    \A trade_price \in Prices, position_long \in 0..MaxQty, position_short \in 0..MaxQty :
        LET r == GOnTickTrade(zone, trade_price, position_long, position_short)
            position_qty == position_long - position_short
        IN zone.state = G_INIT =>
             /\ \A direction \in {0, 1} :
                  LET d == 1 - 2 * direction
                      move == d * (zone.last_order_price - trade_price)
                      triggered == /\ move >= zone.ph
                                   /\ d * (trade_price - zone.peak[direction + 1]) >= zone.pt
                      floor == move \div zone.ph
                      scale == IF zone.order_qty_scaling \/ floor <= 1 THEN floor ELSE 1
                      unclamped == scale * zone.qa[direction + 1] + zone.k * zone.qn[direction + 1]
                      headroom == IF direction = 0
                                  THEN zone.position_qty_caps[2] - position_qty
                                  ELSE position_qty - zone.position_qty_caps[1]
                      clamped == Min(Min(unclamped, headroom), zone.order_qty_caps[direction + 1])
                      emitted == r.legs # <<>> /\ IntentSign(r.legs) = d
                  IN /\ emitted <=> (triggered /\ clamped > 0)
                     /\ emitted => IntentQty(r.legs) = clamped
                     /\ triggered => scale >= 1
             /\ Abs(zone.last_order_price - trade_price) < zone.ph => (r.legs = <<>> /\ r.zone = zone)

\* C31 witness: a zone without base scaling emitted a sell intent two grids
\* or more above last_order_price, for one base quantity plus the offset.
C31_Witness ==
    /\ zone.state \in {G_REQ, G_SPLIT}
    /\ ~zone.order_qty_scaling
    /\ g_ret.legs # <<>>
    /\ IntentSign(g_ret.legs) = 0 - 1
    /\ g_ret.trade_price - zone.last_order_price >= 2 * zone.ph
    /\ IntentQty(g_ret.legs) = zone.qa[2] + zone.k * zone.qn[2]

\* calc_order_params over its arguments: every order action and direction,
\* quantities under, at and over the closable position.
C35_ForAllArguments ==
    \A buy_or_sell \in {BUY, SELL}, direction \in {DIRECTION_LONG, DIRECTION_SHORT},
          order_qty \in 0..(2 * MaxQty + 1), pa \in 0..MaxQty, par \in 0..MaxQty :
          LET r == CalcOrderParams(buy_or_sell, direction, MidPrice, order_qty, "Z", pa, par)
              closable == IF buy_or_sell = SELL THEN pa ELSE par
              closable_side == IF buy_or_sell = SELL THEN direction
                               ELSE IF direction = DIRECTION_LONG THEN DIRECTION_SHORT ELSE DIRECTION_LONG
          IN /\ Len(r.legs) = 2
             /\ r.legs[1].action = SELL /\ r.legs[1].direction = closable_side
             /\ r.legs[2].action = BUY /\ r.legs[2].direction # closable_side
             /\ r.legs[1].qty = (IF closable <= order_qty THEN closable ELSE order_qty)
             /\ r.legs[2].qty = (IF order_qty - closable >= 0 THEN order_qty - closable ELSE 0)
             /\ r.legs[1].qty + r.legs[2].qty = order_qty
             /\ r.legs[1].qty <= closable
             /\ \A i \in 1..2 : r.legs[i].price = MidPrice /\ r.legs[i].tag = "Z"
             /\ r.pa = (IF buy_or_sell = SELL THEN pa - r.legs[1].qty ELSE pa)
             /\ r.par = (IF buy_or_sell = SELL THEN par ELSE par - r.legs[1].qty)
             /\ r.pa >= 0 /\ r.par >= 0
             /\ r.split <=> (r.legs[1].qty > 0 /\ r.legs[2].qty > 0)

\* C35: calc_order_params with both availabilities known and >= 0, the
\* reverse direction allowed and qty >= 0 returns two legs: a Sell on the
\* closable side (the direction of a Sell order, the reverse direction of a
\* Buy order) for min(closable position, qty) and a Buy on the other side
\* for max(0, qty - closable position); the quantities add up to qty and the
\* Sell never exceeds the closable position; the availability of the
\* closable side is reduced by the Sell quantity and the other one returned
\* as given; is_split holds exactly when both quantities are > 0.  The legs
\* a zone returns from on_tick_trade are of this form for the positions it
\* was given.
C35_CalcOrderParams ==
    /\ C35_ForAllArguments
    /\ g_ret.legs # <<>> =>
          LET closable == IF g_ret.legs[1].direction = DIRECTION_LONG
                          THEN g_ret.position_long ELSE g_ret.position_short
          IN /\ Len(g_ret.legs) = 2
             /\ g_ret.legs[1].action = SELL /\ g_ret.legs[2].action = BUY
             /\ g_ret.legs[1].direction # g_ret.legs[2].direction
             /\ g_ret.legs[1].qty = Min(closable, IntentQty(g_ret.legs))
             /\ g_ret.legs[2].qty = Max(0, IntentQty(g_ret.legs) - closable)
             /\ (zone.state = G_SPLIT) => (g_ret.legs[1].qty > 0 /\ g_ret.legs[2].qty > 0)

\* C35 witness: a Buy intent was returned to a caller that holds a short
\* position and asks for more than it: the Sell leg closes the whole short
\* position and the Buy leg opens the rest on the long side.
C35_Witness ==
    /\ g_ret.legs # <<>>
    /\ g_ret.position_short > 0
    /\ g_ret.legs[1].direction = DIRECTION_SHORT
    /\ g_ret.legs[1].qty = g_ret.position_short
    /\ g_ret.legs[2].direction = DIRECTION_LONG
    /\ g_ret.legs[2].qty > 0
    /\ zone.state = G_SPLIT

(***************************************************************************)
(* SwingStrategy (swing_strategy.py) on the Strategy event handlers        *)
(* (strategy.py).  Money is counted in cents and a ratio in percent, so    *)
(* that round(x, 2) is RoundDiv to a whole number of cents.  A value that  *)
(* is None or an object is a sequence of length 0 or 1; a dictionary is a  *)
(* function, the empty one << >>.                                          *)
(***************************************************************************)
ZONE_NAMES == << "Net", "Inc", "Osc", "Dec" >>
N_GRIDS == 8
N_GRIDS_CANCEL_ORDER == 12
TREND_REVERSAL_QTY_RATIO == 40
TREND_REVERSAL_RETRY_STEP == 3
TREND_REVERSAL_PATIENT_MAX_RETRY == 1
RISKY_INIT_MIN_POSITION_RATIO == 80
RISKY_INIT_RETRY_STEP == 3
RISKY_INIT_PATIENT_MAX_RETRY == 0
STOP_GAIN_LOWER_BOUND_TH == 2
STOP_RETRY_STEP == 3
STOP_PATIENT_MAX_RETRY == 1
\* The status of a filled order as the broker reports it (constants.py).
ORDER_CLOSED_ALIAS == "order_status_executed"

SWING_START == 800
SWING_GRID_OSC == 801
SWING_REVERSAL == 802
SWING_RISKY_INIT == 803
SWING_RISKY_OSC == 804
SWING_STOP == 805
SWING_FINISH == 806

ZoneNameSet == {ZONE_NAMES[i] : i \in 1..Len(ZONE_NAMES)}

\* ZONE_NAMES.index(name) + 1
ZoneIndex(name) == CHOOSE i \in 1..Len(ZONE_NAMES) : ZONE_NAMES[i] = name

DirOf(long_short) == IF long_short = 0 THEN DIRECTION_LONG ELSE DIRECTION_SHORT

\* int(a / b) for b > 0: the quotient truncated toward zero.
TruncDiv(a, b) == IF a >= 0 THEN a \div b ELSE 0 - ((0 - a) \div b)

\* The fields after strategy_config_on_start.
SwingNew(p) ==
    [state |-> SWING_START,
     long_short |-> IF p.direction = DIRECTION_SHORT THEN 1 ELSE 0,
     state_cleanup |-> FALSE,
     next_state_after_cleanup |-> None,
     zones |-> << >>,
     start_zone |-> p.start_zone,
     start_zone_mid_price |-> p.p0,
     active_zone |-> "None",
     stale_zone |-> << >>,
     dec_peak |-> (2 * (IF p.direction = DIRECTION_SHORT THEN 1 ELSE 0) - 1) * Inf,
     reversal_orders |-> << >>,
     risky_base_val |-> p.principal,
     risky_base_qty |-> 0,
     risky_cut_qty |-> 0,
     risky_cut_price |-> 0,
     risky_init_order_qty |-> 0,
     risky_init_orders |-> << >>,
     risky_osc_zone |-> << >>,
     max_gain |-> 0 - Inf,
     stop_orders |-> << >>]

\* The object _active_zone refers to, if any.  active_zone is the tag of a
\* zone of _zones; stale_zone holds the object when _zones was emptied and
\* the reference kept (the reversal finish that raises at line 520).
ActiveZone(s) ==
    IF s.active_zone = "None" THEN << >>
    ELSE IF s.active_zone \in DOMAIN s.zones THEN << s.zones[s.active_zone] >>
    ELSE s.stale_zone

SetActiveZone(s, z) ==
    IF s.active_zone \in DOMAIN s.zones
    THEN [s EXCEPT !.zones[s.active_zone] = z]
    ELSE [s EXCEPT !.stale_zone = << z >>]

(***************************************************************************)
(* Outbound events: send_limit_order, cancel_all_orders, cancel_orders.    *)
(***************************************************************************)
OrderEvent(leg) ==
    [type |-> leg.action, direction |-> leg.direction, price |-> Quantize(leg.price),
     qty |-> leg.qty, tag |-> leg.tag, order_ids |-> {}]

RECURSIVE SendLimitOrder(_)
SendLimitOrder(legs) ==
    IF legs = << >> THEN << >>
    ELSE (IF Head(legs).qty > 0 THEN << OrderEvent(Head(legs)) >> ELSE << >>)
         \o SendLimitOrder(Tail(legs))

CancelAllOrders ==
    [type |-> "CANCEL_ALL", direction |-> "None", price |-> None, qty |-> 0,
     tag |-> "None", order_ids |-> {}]

CancelOrders(order_ids) ==
    [type |-> "CANCEL_ORDERS", direction |-> "None", price |-> None, qty |-> 0,
     tag |-> "None", order_ids |-> order_ids]

(***************************************************************************)
(* Positions.  portfolio_obj.get_traded_qty(..., real_time=False) is the   *)
(* position available to sell.  The portfolio is not part of the strategy: *)
(* a session fixes whether it counts the position held or the position     *)
(* held less the quantity that open Sell orders of the direction still     *)
(* hold (cfg.net_of_orders).                                               *)
(***************************************************************************)
RECURSIVE Frozen(_, _, _)
Frozen(order_dict, ids, long_short) ==
    IF ids = {} THEN 0
    ELSE LET id == CHOOSE i \in ids : TRUE
             o == order_dict[id]
         IN (IF o.buy_sell = 1 /\ o.long_short = long_short THEN o.qty - o.filled_qty ELSE 0)
            + Frozen(order_dict, ids \ {id}, long_short)

\* The position no open Sell order holds.
FreeQty(t, long_short) ==
    t.position_qty[long_short + 1] - Frozen(t.order_dict, DOMAIN t.order_dict, long_short)

GetTradedQty(t, long_short) ==
    IF cfg.net_of_orders THEN FreeQty(t, long_short) ELSE t.position_qty[long_short + 1]

\* long - short as the strategy counts it.
NetPosition(s) == s.position_qty[1] - s.position_qty[2]

(***************************************************************************)
(* Adaptive orders of a state: run_adaptive_order over the list, and the   *)
(* routing of acknowledgements, trades and statuses to one of them.        *)
(***************************************************************************)
AOArgsOf(leg, retry_step, patient_max_retry, max_slippage) ==
    [buy_or_sell |-> leg.action, direction |-> leg.direction, order_qty |-> leg.qty,
     order_price |-> leg.price, order_tag |-> leg.tag, retry_step |-> retry_step,
     patient_max_retry |-> patient_max_retry, accelerated_max_retry |-> Inf,
     urgent_max_retry |-> 0, panic_max_retry |-> 0, max_slippage |-> max_slippage]

RECURSIVE AOsOfLegs(_, _, _, _)
AOsOfLegs(legs, retry_step, patient_max_retry, max_slippage) ==
    IF legs = << >> THEN << >>
    ELSE (IF Head(legs).qty > 0
          THEN << AONew(AOArgsOf(Head(legs), retry_step, patient_max_retry, max_slippage)) >>
          ELSE << >>)
         \o AOsOfLegs(Tail(legs), retry_step, patient_max_retry, max_slippage)

RunAdaptiveOrder(o, c) ==
    LET Result(r) ==
            [ao |-> r.ao,
             finished |-> r.sig \in {ORDER_CLOSED, ORDER_CANCELLED},
             out |-> IF r.sig # ORDER_OPEN THEN << >>
                     ELSE IF r.params.action = "CANCEL" THEN << CancelOrders({r.params.order_id}) >>
                     ELSE SendLimitOrder(<< r.params >>)]
    IN Result(AOOnTick(o, c))

RECURSIVE RunOrders(_, _)
RunOrders(orders, c) ==
    LET Join(h, t) ==
            [orders |-> << h.ao >> \o t.orders,
             finished |-> h.finished /\ t.finished,
             out |-> h.out \o t.out]
    IN IF orders = << >> THEN [orders |-> << >>, finished |-> TRUE, out |-> << >>]
       ELSE Join(RunAdaptiveOrder(Head(orders), c), RunOrders(Tail(orders), c))

RECURSIVE FilledQty(_)
FilledQty(orders) == IF orders = << >> THEN 0 ELSE Head(orders).filled_qty + FilledQty(Tail(orders))

RECURSIVE FilledAmt(_)
FilledAmt(orders) == IF orders = << >> THEN 0 ELSE Head(orders).filled_amt + FilledAmt(Tail(orders))

\* The quantity-weighted fill price of the orders, on the tick grid.
FilledPrice(orders) == RoundDecimal(RoundDiv(FilledAmt(orders), FilledQty(orders) * Tick) * Tick)

\* The first order of the list with the tag, 0 if none.
IndexByTag(orders, tag) ==
    LET I == {i \in 1..Len(orders) : orders[i].order_tag = tag}
    IN IF I = {} THEN 0 ELSE CHOOSE i \in I : \A j \in I : i <= j

\* The first order of the list whose last order has the id, 0 if none.
IndexById(orders, order_id) ==
    LET I == {i \in 1..Len(orders) : orders[i].last_order_id = order_id}
    IN IF I = {} THEN 0 ELSE CHOOSE i \in I : \A j \in I : i <= j

(***************************************************************************)
(* SwingStrategy: the state machine run by strategy_rules_on_tick.  An     *)
(* operator for a method returns the fields after the call (sw), the       *)
(* events it put in the engine (out) and, for a transition, whether the    *)
(* tick ends there (blocked: the method returned True or raised).          *)
(***************************************************************************)
\* Variant: a last price equal to the start price still waits.
SwingStartRun_Wait(p, s, c) ==
    IF (1 - 2 * s.long_short) * (c.last - p.p0) >= 0 THEN [ok |-> FALSE, sw |-> s]
    ELSE IF p.start_zone # "Net" THEN [ok |-> TRUE, sw |-> [s EXCEPT !.state = SWING_GRID_OSC]]
    ELSE [ok |-> TRUE, sw |-> [s EXCEPT !.state = SWING_REVERSAL, !.long_short = 1 - @]]

\* Variant: the start in the Net zone does not flip long_short.
SwingStartRun_NoFlip(p, s, c) ==
    IF (1 - 2 * s.long_short) * (c.last - p.p0) > 0 THEN [ok |-> FALSE, sw |-> s]
    ELSE IF p.start_zone # "Net" THEN [ok |-> TRUE, sw |-> [s EXCEPT !.state = SWING_GRID_OSC]]
    ELSE [ok |-> TRUE, sw |-> [s EXCEPT !.state = SWING_REVERSAL]]

\* _swing_start_run
SwingStartRun(p, s, c) ==
    IF (1 - 2 * s.long_short) * (c.last - p.p0) > 0 THEN [ok |-> FALSE, sw |-> s]
    ELSE IF p.start_zone # "Net" THEN [ok |-> TRUE, sw |-> [s EXCEPT !.state = SWING_GRID_OSC]]
    ELSE [ok |-> TRUE, sw |-> [s EXCEPT !.state = SWING_REVERSAL, !.long_short = 1 - @]]

\* The arguments of the i-th planned zone.
ZoneArgs(p, long_short, i, open_bound, mid) ==
    LET d == 1 - 2 * long_short
        zone_open == open_bound + d * (i - 1) * N_GRIDS * p.ph
        zone_close == zone_open + d * N_GRIDS * p.ph
    IN [tag |-> ZONE_NAMES[i],
        low_bound |-> IF long_short = 0 THEN zone_open ELSE zone_close,
        n_grids |-> N_GRIDS,
        grid_height |-> p.ph,
        low_ext |-> (i = 1 /\ long_short = 0) \/ (i = Len(ZONE_NAMES) /\ long_short = 1),
        high_ext |-> (i = Len(ZONE_NAMES) /\ long_short = 0) \/ (i = 1 /\ long_short = 1),
        trail_amt |-> p.pt,
        qty_base_long |-> p.qa,
        qty_base_short |-> p.qa,
        qty_offset_long |-> p.q_offset[ZONE_NAMES[i]][long_short + 1],
        qty_offset_short |-> p.q_offset[ZONE_NAMES[i]][2 - long_short],
        last_order_price |-> mid,
        k_init |-> 0,
        qty_base_scaling |-> TRUE,
        position_qty_cap_min |-> IF long_short = 0 THEN 0 ELSE 0 - Inf,
        position_qty_cap_max |-> IF long_short = 0 THEN Inf ELSE 0,
        order_qty_cap_long |-> Inf,
        order_qty_cap_short |-> Inf]

\* _setup_zones(self._start_zone, self._start_zone_mid_price)
SetupZones(p, s, c) ==
    LET start_zone_index == ZoneIndex(s.start_zone) - 1
        mid == IF s.start_zone_mid_price = None THEN c.last ELSE s.start_zone_mid_price
        d == 1 - 2 * s.long_short
        open_bound == mid - d * (N_GRIDS \div 2 + start_zone_index * N_GRIDS) * p.ph
    IN [s EXCEPT !.zones = [n \in ZoneNameSet |->
                               GNew(ZoneArgs(p, s.long_short, ZoneIndex(n), open_bound, mid))],
                 !.active_zone = s.start_zone,
                 !.stale_zone = << >>]

\* Variant: _max_gain is kept when the gain is under the lower bound.
TrailingStop_NoReset(p, s, gain) ==
    LET gain_lower_bound == RoundDiv(p.principal * p.g0 * (100 - p.gt - STOP_GAIN_LOWER_BOUND_TH), 10000)
        is_gain_valid == gain >= gain_lower_bound
        max_gain == Max(gain, s.max_gain)
        target_gain == RoundDiv(p.g0 * p.principal, 100)
        trailing_amount == RoundDiv(max_gain - gain, 1)
        trailing_target == RoundDiv(p.gt * max_gain, 100)
    IN [max_gain |-> max_gain,
        triggered |-> is_gain_valid /\ max_gain >= target_gain /\ trailing_amount >= trailing_target]

\* _is_trailing_stop_on_gain_triggered: the new _max_gain and the answer.
TrailingStop(p, s, gain) ==
    LET gain_lower_bound == RoundDiv(p.principal * p.g0 * (100 - p.gt - STOP_GAIN_LOWER_BOUND_TH), 10000)
        is_gain_valid == gain >= gain_lower_bound
        max_gain == Max(gain, IF is_gain_valid THEN s.max_gain ELSE 0 - Inf)
        target_gain == RoundDiv(p.g0 * p.principal, 100)
        trailing_amount == RoundDiv(max_gain - gain, 1)
        trailing_target == RoundDiv(p.gt * max_gain, 100)
    IN [max_gain |-> max_gain,
        triggered |-> is_gain_valid /\ max_gain >= target_gain /\ trailing_amount >= trailing_target]

\* Variant: the next state is taken at once, whatever orders are open.
RequestTransition_Now(s, next_state, has_orders) ==
    [sw |-> [s EXCEPT !.state = next_state, !.state_cleanup = FALSE,
                      !.next_state_after_cleanup = None],
     out |-> << >>]

\* A transition to next_state: at once when order_dict is empty, otherwise
\* through the cleanup (cancel all orders, keep the state).
RequestTransition(s, next_state, has_orders) ==
    IF has_orders
    THEN [sw |-> [s EXCEPT !.state_cleanup = TRUE, !.next_state_after_cleanup = next_state],
          out |-> << CancelAllOrders >>]
    ELSE [sw |-> [s EXCEPT !.state = next_state, !.state_cleanup = FALSE,
                           !.next_state_after_cleanup = None],
          out |-> << >>]

\* Variant: the cleanup ends at the first tick, whatever orders are open.
CleanupStep_Early(s, has_orders) ==
    [s EXCEPT !.state = s.next_state_after_cleanup, !.state_cleanup = FALSE,
              !.next_state_after_cleanup = None]

\* Variant: the cleanup never ends.
CleanupStep_Keep(s, has_orders) == s

\* The cleanup branch: the next state is taken once order_dict is empty.
CleanupStep(s, has_orders) ==
    IF has_orders THEN s
    ELSE [s EXCEPT !.state = s.next_state_after_cleanup, !.state_cleanup = FALSE,
                   !.next_state_after_cleanup = None]

\* Variant: the transitions are checked also while the active zone waits
\* for an acknowledgement.
GridOscTransition_NoBlock(p, s, t, c, gain) ==
    LET az == ActiveZone(s)
        has_orders == DOMAIN t.order_dict # {}
        d == 1 - 2 * s.long_short
        dec_peak == IF s.long_short = 0 THEN Max(s.dec_peak, c.last) ELSE Min(s.dec_peak, c.last)
        reversal_triggerred == d * (dec_peak - c.last) * p.pls.d > p.pls.n * dec_peak
        nlv == p.principal + gain
        value_triggered == 100 * nlv < (100 - p.g_risky) * s.risky_base_val
        position_qty == d * NetPosition(t)
        risky_init_order_qty ==
            IF position_qty >= p.q_max THEN position_qty \div 3
            ELSE IF 100 * position_qty >= RISKY_INIT_MIN_POSITION_RATIO * p.q_max
            THEN position_qty \div 4
            ELSE 0
        risky_osc_min_order_qty == Min(risky_init_order_qty \div 2, risky_init_order_qty \div 3)
        Result(r, zero_division) ==
            [sw |-> r.sw, out |-> r.out, blocked |-> r.sw.state_cleanup \/ zero_division]
        Check(ts, s1) ==
            IF s.state_cleanup
            THEN Result([sw |-> CleanupStep(s, has_orders), out |-> << >>], FALSE)
            ELSE IF ts.triggered
            THEN Result(RequestTransition(s1, SWING_STOP, has_orders), FALSE)
            ELSE IF az # << >> /\ az[1].tag = "Dec"
            THEN IF dec_peak # 0 /\ reversal_triggerred
                 THEN Result(RequestTransition([s1 EXCEPT !.dec_peak = dec_peak], SWING_REVERSAL,
                                               has_orders), FALSE)
                 ELSE Result([sw |-> [s1 EXCEPT !.dec_peak = dec_peak], out |-> << >>], dec_peak = 0)
            ELSE IF az # << >> /\ az[1].tag = "Net"
                    /\ value_triggered /\ risky_init_order_qty > 0 /\ risky_osc_min_order_qty > 0
            THEN Result(RequestTransition([s1 EXCEPT !.risky_init_order_qty = risky_init_order_qty,
                                                     !.risky_base_qty = position_qty],
                                          SWING_RISKY_INIT, has_orders), FALSE)
            ELSE Result([sw |-> s1, out |-> << >>], FALSE)
        Gain(ts) == Check(ts, [s EXCEPT !.max_gain = ts.max_gain])
    IN Gain(TrailingStop(p, s, gain))

\* _swing_grid_osc_transition
GridOscTransition(p, s, t, c, gain) ==
    LET az == ActiveZone(s)
        has_orders == DOMAIN t.order_dict # {}
        d == 1 - 2 * s.long_short
        dec_peak == IF s.long_short = 0 THEN Max(s.dec_peak, c.last) ELSE Min(s.dec_peak, c.last)
        reversal_triggerred == d * (dec_peak - c.last) * p.pls.d > p.pls.n * dec_peak
        nlv == p.principal + gain
        value_triggered == 100 * nlv < (100 - p.g_risky) * s.risky_base_val
        position_qty == d * NetPosition(t)
        risky_init_order_qty ==
            IF position_qty >= p.q_max THEN position_qty \div 3
            ELSE IF 100 * position_qty >= RISKY_INIT_MIN_POSITION_RATIO * p.q_max
            THEN position_qty \div 4
            ELSE 0
        risky_osc_min_order_qty == Min(risky_init_order_qty \div 2, risky_init_order_qty \div 3)
        Result(r, zero_division) ==
            [sw |-> r.sw, out |-> r.out, blocked |-> r.sw.state_cleanup \/ zero_division]
        Check(ts, s1) ==
            IF s.state_cleanup
            THEN Result([sw |-> CleanupStep(s, has_orders), out |-> << >>], FALSE)
            ELSE IF ts.triggered
            THEN Result(RequestTransition(s1, SWING_STOP, has_orders), FALSE)
            ELSE IF az # << >> /\ az[1].tag = "Dec"
            THEN IF dec_peak # 0 /\ reversal_triggerred
                 THEN Result(RequestTransition([s1 EXCEPT !.dec_peak = dec_peak], SWING_REVERSAL,
                                               has_orders), FALSE)
                 ELSE Result([sw |-> [s1 EXCEPT !.dec_peak = dec_peak], out |-> << >>], dec_peak = 0)
            ELSE IF az # << >> /\ az[1].tag = "Net"
                    /\ value_triggered /\ risky_init_order_qty > 0 /\ risky_osc_min_order_qty > 0
            THEN Result(RequestTransition([s1 EXCEPT !.risky_init_order_qty = risky_init_order_qty,
                                                     !.risky_base_qty = position_qty],
                                          SWING_RISKY_INIT, has_orders), FALSE)
            ELSE Result([sw |-> s1, out |-> << >>], FALSE)
        Gain(ts) == Check(ts, [s EXCEPT !.max_gain = ts.max_gain])
    IN IF az # << >> /\ az[1].state \in {G_REQ, G_SPLIT}
       THEN [sw |-> s, out |-> << >>, blocked |-> TRUE]
       ELSE Gain(TrailingStop(p, s, gain))

\* Variant: the hand-over copies the last order price and leaves the peaks.
ZoneHandOver_PriceOnly(to, from) ==
    [to EXCEPT !.last_order_price = from.last_order_price]

\* The hand-over of the trailing prices from one zone to another.
ZoneHandOver(to, from) ==
    [to EXCEPT !.last_order_price = from.last_order_price, !.peak = from.peak]

\* _swing_risky_osc_transition
RiskyOscTransition(p, s, t, gain) ==
    LET rz == s.risky_osc_zone
        has_orders == DOMAIN t.order_dict # {}
        nlv == p.principal + gain
        position_qty == (1 - 2 * s.long_short) * NetPosition(t)
        back == position_qty >= s.risky_base_qty \/ nlv > s.risky_base_val
        HandOver(r, az) ==
            [sw |-> [SetActiveZone(r.sw, ZoneHandOver(az[1], rz[1])) EXCEPT
                        !.risky_osc_zone = << >>,
                        !.risky_base_val = nlv,
                        !.risky_base_qty = position_qty,
                        !.risky_cut_qty = 0,
                        !.risky_cut_price = 0],
             out |-> r.out, blocked |-> FALSE]
        Result(r, state_transition) ==
            IF ~(state_transition /\ ~r.sw.state_cleanup)
            THEN [sw |-> r.sw, out |-> r.out, blocked |-> r.sw.state_cleanup]
            ELSE IF rz = << >> \/ ActiveZone(r.sw) = << >>
            THEN [sw |-> r.sw, out |-> r.out, blocked |-> TRUE]
            ELSE HandOver(r, ActiveZone(r.sw))
        Check(ts, s1) ==
            IF s.state_cleanup THEN Result([sw |-> CleanupStep(s, has_orders), out |-> << >>], TRUE)
            ELSE IF ts.triggered THEN Result(RequestTransition(s1, SWING_STOP, has_orders), TRUE)
            ELSE IF back THEN Result(RequestTransition(s1, SWING_GRID_OSC, has_orders), TRUE)
            ELSE Result([sw |-> s1, out |-> << >>], FALSE)
        Gain(ts) == Check(ts, [s EXCEPT !.max_gain = ts.max_gain])
    IN IF rz # << >> /\ rz[1].state \in {G_REQ, G_SPLIT}
       THEN [sw |-> s, out |-> << >>, blocked |-> TRUE]
       ELSE Gain(TrailingStop(p, s, gain))

\* Variant: the search moves to the adjacent zone and stops there.
ZoneWalk_OneStep(zones, idx, direction, long_short, last, ph) ==
    LET z == zones[ZONE_NAMES[idx]] IN
    IF ~z.ext[direction + 1] /\ Sign(direction) * (z.bounds[direction + 1] - last) >= ph
    THEN idx - Sign(direction) * (1 - 2 * long_short)
    ELSE idx

\* The zone the search of _swing_grid_osc_run stops at, from the zone idx
\* toward the side `direction`.
RECURSIVE ZoneWalk(_, _, _, _, _, _)
ZoneWalk(zones, idx, direction, long_short, last, ph) ==
    LET z == zones[ZONE_NAMES[idx]] IN
    IF ~z.ext[direction + 1] /\ Sign(direction) * (z.bounds[direction + 1] - last) >= ph
    THEN ZoneWalk(zones, idx - Sign(direction) * (1 - 2 * long_short), direction, long_short, last, ph)
    ELSE idx

\* The cancel of the orders far from the last price.
FarCancel(p, t, c) ==
    LET ids == {id \in DOMAIN t.order_dict :
                   Abs(c.last - t.order_dict[id].price) > N_GRIDS_CANCEL_ORDER * p.ph}
    IN IF ids = {} THEN << >> ELSE << CancelOrders(ids) >>

\* _swing_grid_osc_run
GridOscRun(p, s, t, c) ==
    LET Trade(s1, zones, active, r) ==
            [sw |-> [s1 EXCEPT !.zones = [zones EXCEPT ![active.tag] = r.zone],
                               !.active_zone = active.tag],
             out |-> SendLimitOrder(r.legs) \o FarCancel(p, t, c)]
        Run(s1, zones, active) ==
            Trade(s1, zones, active,
                  GOnTickTrade(active, c.last, GetTradedQty(t, 0), GetTradedQty(t, 1)))
        Switch(s1, zones, a1, idx, new_idx) ==
            Run(s1, zones,
                IF new_idx # idx
                THEN GOnTickUpdate(ZoneHandOver(zones[ZONE_NAMES[new_idx]], a1), c.last)
                ELSE a1)
        Search(s1, zones, a1, idx, low) ==
            Switch(s1, zones, a1, idx,
                   IF low # idx THEN low
                   ELSE ZoneWalk(zones, idx, 1, s1.long_short, c.last, p.ph))
        Walk(s1, zones, a1, idx) ==
            Search(s1, zones, a1, idx, ZoneWalk(zones, idx, 0, s1.long_short, c.last, p.ph))
        Update(s1, a1) == Walk(s1, [s1.zones EXCEPT ![a1.tag] = a1], a1, ZoneIndex(a1.tag))
        Setup(s1) == Update(s1, GOnTickUpdate(s1.zones[s1.active_zone], c.last))
    IN Setup(IF DOMAIN s.zones = {} THEN SetupZones(p, s, c) ELSE s)

\* The two legs with the tags of the state's orders.
TagLegs(legs, sell_tag, buy_tag) ==
    << [legs[1] EXCEPT !.tag = sell_tag], [legs[2] EXCEPT !.tag = buy_tag] >>

\* max_slippage of the reversal orders, in ticks.
ReversalMaxSlippage(p, s, c) ==
    LET base == TruncDiv(N_GRIDS * p.ph + 2 * p.ph, 2 * Tick) + 1
        dec == TruncDiv((1 - 2 * s.long_short) * (c.last - s.zones["Dec"].bounds[s.long_short + 1]) + p.ph,
                        Tick) + 1
    IN IF DOMAIN s.zones = {} THEN base ELSE Max(base, dec)

\* Variant: the target quantity of the reversal is cut down to a whole number.
ReversalRun_Floor(p, s, t, c, gain) ==
    LET create == s.reversal_orders = << >>
        long_short == IF create THEN 1 - s.long_short ELSE s.long_short
        pa == t.position_qty[long_short + 1]
        par == t.position_qty[2 - long_short]
        order_qty == TruncDiv(TREND_REVERSAL_QTY_RATIO * p.q_max, 100) - (pa - par)
        Finish(run, s1) ==
            [sw |-> IF ~run.finished THEN s1
                    ELSE IF run.orders = << >>
                    THEN [s1 EXCEPT !.state = SWING_GRID_OSC,
                                    !.zones = << >>,
                                    !.start_zone = "Net",
                                    !.stale_zone = ActiveZone(s1)]
                    ELSE IF run.orders[1].filled_qty = 0 THEN s1
                    ELSE [s1 EXCEPT !.state = SWING_GRID_OSC,
                                    !.zones = << >>,
                                    !.start_zone = "Net",
                                    !.start_zone_mid_price = FilledPrice(run.orders),
                                    !.active_zone = "None",
                                    !.stale_zone = << >>,
                                    !.dec_peak = (2 * long_short - 1) * Inf,
                                    !.risky_base_val = p.principal + gain,
                                    !.risky_base_qty = (1 - 2 * long_short) * NetPosition(t),
                                    !.risky_cut_qty = 0,
                                    !.risky_cut_price = 0,
                                    !.risky_init_order_qty = 0,
                                    !.risky_init_orders = << >>,
                                    !.risky_osc_zone = << >>,
                                    !.reversal_orders = << >>],
             out |-> run.out]
        Run(run) == Finish(run, [s EXCEPT !.long_short = long_short, !.reversal_orders = run.orders])
    IN Run(RunOrders(IF create
                     THEN AOsOfLegs(TagLegs(CalcOrderParams(BUY, DirOf(long_short), c.last, order_qty,
                                                            "SWING_REVERSAL", pa, par).legs,
                                            "SWING_REVERSAL_SELL", "SWING_REVERSAL_BUY"),
                                    TREND_REVERSAL_RETRY_STEP, TREND_REVERSAL_PATIENT_MAX_RETRY,
                                    ReversalMaxSlippage(p, s, c))
                     ELSE s.reversal_orders, c))

\* _swing_reversal_run
ReversalRun(p, s, t, c, gain) ==
    LET create == s.reversal_orders = << >>
        long_short == IF create THEN 1 - s.long_short ELSE s.long_short
        pa == t.position_qty[long_short + 1]
        par == t.position_qty[2 - long_short]
        order_qty == RoundDiv(TREND_REVERSAL_QTY_RATIO * p.q_max, 100) - (pa - par)
        Finish(run, s1) ==
            [sw |-> IF ~run.finished THEN s1
                    ELSE IF run.orders = << >>
                    THEN [s1 EXCEPT !.state = SWING_GRID_OSC,
                                    !.zones = << >>,
                                    !.start_zone = "Net",
                                    !.stale_zone = ActiveZone(s1)]
                    ELSE IF run.orders[1].filled_qty = 0 THEN s1
                    ELSE [s1 EXCEPT !.state = SWING_GRID_OSC,
                                    !.zones = << >>,
                                    !.start_zone = "Net",
                                    !.start_zone_mid_price = FilledPrice(run.orders),
                                    !.active_zone = "None",
                                    !.stale_zone = << >>,
                                    !.dec_peak = (2 * long_short - 1) * Inf,
                                    !.risky_base_val = p.principal + gain,
                                    !.risky_base_qty = (1 - 2 * long_short) * NetPosition(t),
                                    !.risky_cut_qty = 0,
                                    !.risky_cut_price = 0,
                                    !.risky_init_order_qty = 0,
                                    !.risky_init_orders = << >>,
                                    !.risky_osc_zone = << >>,
                                    !.reversal_orders = << >>],
             out |-> run.out]
        Run(run) == Finish(run, [s EXCEPT !.long_short = long_short, !.reversal_orders = run.orders])
    IN Run(RunOrders(IF create
                     THEN AOsOfLegs(TagLegs(CalcOrderParams(BUY, DirOf(long_short), c.last, order_qty,
                                                            "SWING_REVERSAL", pa, par).legs,
                                            "SWING_REVERSAL_SELL", "SWING_REVERSAL_BUY"),
                                    TREND_REVERSAL_RETRY_STEP, TREND_REVERSAL_PATIENT_MAX_RETRY,
                                    ReversalMaxSlippage(p, s, c))
                     ELSE s.reversal_orders, c))

\* _swing_risky_init_run
RiskyInitRun(p, s, t, c) ==
    LET pa == t.position_qty[s.long_short + 1]
        par == t.position_qty[2 - s.long_short]
        Finish(run, s1) ==
            [sw |-> IF ~run.finished THEN s1
                    ELSE IF run.orders # << >> /\ run.orders[1].filled_qty = 0
                    THEN [s1 EXCEPT !.risky_cut_qty = 0, !.risky_cut_price = 0]
                    ELSE [s1 EXCEPT !.risky_cut_qty = FilledQty(run.orders),
                                    !.risky_cut_price = IF run.orders = << >> THEN 0
                                                        ELSE FilledPrice(run.orders),
                                    !.state = SWING_RISKY_OSC,
                                    !.risky_init_order_qty = 0,
                                    !.risky_init_orders = << >>],
             out |-> run.out]
        Run(run) == Finish(run, [s EXCEPT !.risky_init_orders = run.orders])
    IN Run(RunOrders(IF s.risky_init_orders = << >>
                     THEN AOsOfLegs(TagLegs(CalcOrderParams(SELL, DirOf(s.long_short), c.last,
                                                            s.risky_init_order_qty,
                                                            "SWING_RISKY_INIT", pa, par).legs,
                                            "SWING_RISKY_INIT_SELL", "SWING_RISKY_INIT_BUY"),
                                    RISKY_INIT_RETRY_STEP, RISKY_INIT_PATIENT_MAX_RETRY, Inf)
                     ELSE s.risky_init_orders, c))

\* The arguments of the risky zone.
RiskyZoneArgs(p, s, t) ==
    LET qa == << RoundDiv(s.risky_cut_qty, 2), RoundDiv(s.risky_cut_qty, 3) >>
        pos_qty_after_cut == NetPosition(t)
    IN [tag |-> "RISKY_OSC",
        low_bound |-> s.risky_cut_price - (1 - s.long_short) * p.ph * N_GRIDS,
        n_grids |-> N_GRIDS,
        grid_height |-> p.ph,
        low_ext |-> TRUE,
        high_ext |-> TRUE,
        trail_amt |-> p.pt,
        qty_base_long |-> qa[s.long_short + 1],
        qty_base_short |-> qa[2 - s.long_short],
        qty_offset_long |-> 0,
        qty_offset_short |-> 0,
        last_order_price |-> s.risky_cut_price,
        k_init |-> 0,
        qty_base_scaling |-> FALSE,
        position_qty_cap_min |-> IF s.long_short = 0 THEN pos_qty_after_cut ELSE 0 - s.risky_base_qty,
        position_qty_cap_max |-> IF s.long_short = 0 THEN s.risky_base_qty ELSE pos_qty_after_cut,
        order_qty_cap_long |-> Inf,
        order_qty_cap_short |-> Inf]

\* _swing_risky_osc_run
RiskyOscRun(p, s, t, c) ==
    LET Trade(r) ==
            [sw |-> [s EXCEPT !.risky_osc_zone = << r.zone >>],
             out |-> SendLimitOrder(r.legs) \o FarCancel(p, t, c)]
    IN Trade(GOnTickTrade(GOnTickUpdate(IF s.risky_osc_zone = << >>
                                        THEN GNew(RiskyZoneArgs(p, s, t))
                                        ELSE s.risky_osc_zone[1], c.last),
                          c.last, GetTradedQty(t, 0), GetTradedQty(t, 1)))

\* Variant: a stop order is created for a side with no position too.
StopOrderOf_Always(t, c, long_short) ==
    << AONew(AOArgsOf(Leg(SELL, DirOf(long_short), c.last, t.position_qty[long_short + 1],
                          IF long_short = 0 THEN "SWING_STOP_long" ELSE "SWING_STOP_short"),
                      STOP_RETRY_STEP, STOP_PATIENT_MAX_RETRY, Inf)) >>

\* The stop order of one direction, if a position is held in it.
StopOrderOf(t, c, long_short) ==
    IF t.position_qty[long_short + 1] > 0
    THEN << AONew(AOArgsOf(Leg(SELL, DirOf(long_short), c.last, t.position_qty[long_short + 1],
                               IF long_short = 0 THEN "SWING_STOP_long" ELSE "SWING_STOP_short"),
                           STOP_RETRY_STEP, STOP_PATIENT_MAX_RETRY, Inf)) >>
    ELSE << >>

\* _swing_stop_run
StopRun(s, t, c) ==
    LET Finish(run) ==
            [sw |-> IF run.finished
                    THEN [s EXCEPT !.stop_orders = << >>, !.state = SWING_FINISH]
                    ELSE [s EXCEPT !.stop_orders = run.orders],
             out |-> run.out]
    IN Finish(RunOrders(IF s.stop_orders = << >>
                        THEN StopOrderOf(t, c, 0) \o StopOrderOf(t, c, 1)
                        ELSE s.stop_orders, c))

\* The state running part of strategy_rules_on_tick.
StateRun(p, s, t, c, gain) ==
    IF s.state = SWING_GRID_OSC THEN GridOscRun(p, s, t, c)
    ELSE IF s.state = SWING_REVERSAL THEN ReversalRun(p, s, t, c, gain)
    ELSE IF s.state = SWING_RISKY_INIT THEN RiskyInitRun(p, s, t, c)
    ELSE IF s.state = SWING_RISKY_OSC THEN RiskyOscRun(p, s, t, c)
    ELSE IF s.state = SWING_STOP THEN StopRun(s, t, c)
    ELSE [sw |-> s, out |-> << >>]

\* Variant: strategy_rules_on_tick leaves the strategy active in Finish.
RulesOnTick_StayActive(p, s, t, c, gain) ==
    LET Run(tr, run) ==
            [sw |-> run.sw, out |-> tr.out \o run.out, active |-> TRUE]
        Transition(tr) ==
            IF tr.blocked THEN [sw |-> tr.sw, out |-> tr.out, active |-> TRUE]
            ELSE Run(tr, StateRun(p, tr.sw, t, c, gain))
        Start(start) ==
            IF ~start.ok THEN [sw |-> start.sw, out |-> << >>, active |-> TRUE]
            ELSE IF start.sw.state = SWING_GRID_OSC
            THEN Transition(GridOscTransition(p, start.sw, t, c, gain))
            ELSE IF start.sw.state = SWING_RISKY_OSC
            THEN Transition(RiskyOscTransition(p, start.sw, t, gain))
            ELSE Transition([sw |-> start.sw, out |-> << >>, blocked |-> FALSE])
    IN Start(IF s.state = SWING_START THEN SwingStartRun(p, s, c) ELSE [ok |-> TRUE, sw |-> s])

\* strategy_rules_on_tick: the fields and the events after the call, and
\* whether the strategy is still active.
RulesOnTick(p, s, t, c, gain) ==
    LET Run(tr, run) ==
            [sw |-> run.sw, out |-> tr.out \o run.out, active |-> tr.sw.state # SWING_FINISH]
        Transition(tr) ==
            IF tr.blocked THEN [sw |-> tr.sw, out |-> tr.out, active |-> TRUE]
            ELSE Run(tr, StateRun(p, tr.sw, t, c, gain))
        Start(start) ==
            IF ~start.ok THEN [sw |-> start.sw, out |-> << >>, active |-> TRUE]
            ELSE IF start.sw.state = SWING_GRID_OSC
            THEN Transition(GridOscTransition(p, start.sw, t, c, gain))
            ELSE IF start.sw.state = SWING_RISKY_OSC
            THEN Transition(RiskyOscTransition(p, start.sw, t, gain))
            ELSE Transition([sw |-> start.sw, out |-> << >>, blocked |-> FALSE])
    IN Start(IF s.state = SWING_START THEN SwingStartRun(p, s, c) ELSE [ok |-> TRUE, sw |-> s])

\* strategy_rules_on_buy_success / strategy_rules_on_sell_success for one order
RulesOnSuccess(s, order_id, order) ==
    LET Route(orders) ==
            LET i == IndexByTag(orders, order.tag) IN
            IF i = 0 THEN orders
            ELSE [orders EXCEPT ![i] = AOOnBuySellSuccess(@, order_id, order.price)]
    IN
    IF s.state = SWING_GRID_OSC
    THEN IF order.tag \in DOMAIN s.zones
         THEN [s EXCEPT !.zones[order.tag] = GOnBuySellSuccess(@, order.price)]
         ELSE s
    ELSE IF s.state = SWING_REVERSAL
    THEN [s EXCEPT !.reversal_orders = Route(@)]
    ELSE IF s.state = SWING_RISKY_INIT
    THEN [s EXCEPT !.risky_init_orders = Route(@)]
    ELSE IF s.state = SWING_RISKY_OSC
    THEN IF s.risky_osc_zone # << >>
         THEN [s EXCEPT !.risky_osc_zone[1] = GOnBuySellSuccess(@, order.price)]
         ELSE s
    ELSE IF s.state = SWING_STOP
    THEN [s EXCEPT !.stop_orders = Route(@)]
    ELSE s

\* strategy_rules_on_buy_fail / strategy_rules_on_sell_fail
RulesOnFail(s, order_tag) ==
    LET Route(orders) ==
            LET i == IndexByTag(orders, order_tag) IN
            IF i = 0 THEN orders ELSE [orders EXCEPT ![i] = AOOnBuySellFail(@)]
    IN
    IF s.state = SWING_GRID_OSC
    THEN IF order_tag \in DOMAIN s.zones
         THEN [s EXCEPT !.zones[order_tag] = GOnBuySellFail(@)]
         ELSE s
    ELSE IF s.state = SWING_REVERSAL
    THEN [s EXCEPT !.reversal_orders = Route(@)]
    ELSE IF s.state = SWING_RISKY_INIT
    THEN [s EXCEPT !.risky_init_orders = Route(@)]
    ELSE IF s.state = SWING_RISKY_OSC
    THEN IF s.risky_osc_zone # << >>
         THEN [s EXCEPT !.risky_osc_zone[1] = GOnBuySellFail(@)]
         ELSE s
    ELSE IF s.state = SWING_STOP
    THEN [s EXCEPT !.stop_orders = Route(@)]
    ELSE s

\* strategy_rules_on_trade_update
RulesOnTradeUpdate(s, order_id, order, trade_price, trade_qty) ==
    LET Route(orders) ==
            LET i == IndexById(orders, order_id) IN
            IF i = 0 THEN orders
            ELSE [orders EXCEPT ![i] = AOOnTradeUpdate(@, trade_price, trade_qty)]
    IN
    IF s.state = SWING_GRID_OSC
    THEN IF order.tag \in DOMAIN s.zones
         THEN [s EXCEPT !.zones[order.tag] =
                   GOnTradeUpdate(@, order.buy_sell, order.long_short, trade_price, trade_qty)]
         ELSE s
    ELSE IF s.state = SWING_REVERSAL
    THEN [s EXCEPT !.reversal_orders = Route(@)]
    ELSE IF s.state = SWING_RISKY_INIT
    THEN [s EXCEPT !.risky_init_orders = Route(@)]
    ELSE IF s.state = SWING_RISKY_OSC
    THEN IF s.risky_osc_zone # << >>
         THEN [s EXCEPT !.risky_osc_zone[1] =
                   GOnTradeUpdate(@, order.buy_sell, order.long_short, trade_price, trade_qty)]
         ELSE s
    ELSE IF s.state = SWING_STOP
    THEN [s EXCEPT !.stop_orders = Route(@)]
    ELSE s

\* strategy_rules_on_order_status
RulesOnOrderStatus(s, order_id, order_status) ==
    LET Route(orders) ==
            LET i == IndexById(orders, order_id) IN
            IF i = 0 THEN orders ELSE [orders EXCEPT ![i] = AOOnOrderStatus(@, order_status)]
    IN
    IF s.state = SWING_REVERSAL
    THEN [s EXCEPT !.reversal_orders = Route(@)]
    ELSE IF s.state = SWING_RISKY_INIT
    THEN [s EXCEPT !.risky_init_orders = Route(@)]
    ELSE IF s.state = SWING_STOP
    THEN [s EXCEPT !.stop_orders = Route(@)]
    ELSE s

\* update_position_avg_price: the position quantities after a trade.
UpdatePositionQty(position_qty, trade_action, trade_direction, trade_qty) ==
    [position_qty EXCEPT ![trade_direction + 1] =
        IF trade_action = 0 THEN @ + trade_qty ELSE @ - trade_qty]

\* on_order_status with strategy_rules_on_order_status called before the
\* OrderRecord is looked up.
OnOrderStatus_CallbackFirst(t, s, order_id, order_status) ==
    LET status == IF order_status = ORDER_CLOSED_ALIAS THEN ORDER_CLOSED ELSE order_status
        Removed(trades) ==
            [t EXCEPT !.trade_dict = IF DOMAIN @ \subseteq trades THEN << >>
                                     ELSE [k \in DOMAIN @ \ trades |-> @[k]],
                      !.order_dict = IF DOMAIN @ = {order_id} THEN << >>
                                     ELSE [k \in DOMAIN @ \ {order_id} |-> @[k]]]
    IN IF order_status \notin {ORDER_CLOSED_ALIAS, ORDER_REJECTED, ORDER_CANCELLED, ORDER_REPEAT_CANCEL}
       THEN [strat |-> t, sw |-> s, called |-> FALSE]
       ELSE IF order_id \notin DOMAIN t.order_dict
       THEN [strat |-> t, sw |-> RulesOnOrderStatus(s, order_id, status), called |-> TRUE]
       ELSE [strat |-> Removed({t.order_dict[order_id].trades[i] : i \in DOMAIN t.order_dict[order_id].trades}),
             sw |-> RulesOnOrderStatus(s, order_id, status), called |-> TRUE]

\* on_order_status: the Strategy fields and the SwingStrategy fields after
\* the event, and whether strategy_rules_on_order_status was called.  The
\* portfolio knows the orders the broker has accepted.
OnOrderStatus(t, s, order_id, order_status) ==
    LET status == IF order_status = ORDER_CLOSED_ALIAS THEN ORDER_CLOSED ELSE order_status
        Removed(trades) ==
            [t EXCEPT !.trade_dict = IF DOMAIN @ \subseteq trades THEN << >>
                                     ELSE [k \in DOMAIN @ \ trades |-> @[k]],
                      !.order_dict = IF DOMAIN @ = {order_id} THEN << >>
                                     ELSE [k \in DOMAIN @ \ {order_id} |-> @[k]]]
    IN IF order_status \notin {ORDER_CLOSED_ALIAS, ORDER_REJECTED, ORDER_CANCELLED, ORDER_REPEAT_CANCEL}
       THEN [strat |-> t, sw |-> s, called |-> FALSE]
       ELSE IF order_id \notin DOMAIN t.order_dict
       THEN [strat |-> t, sw |-> s, called |-> FALSE]
       ELSE [strat |-> Removed({t.order_dict[order_id].trades[i] : i \in DOMAIN t.order_dict[order_id].trades}),
             sw |-> RulesOnOrderStatus(s, order_id, status), called |-> TRUE]

\* _save_orders_on_buy_sell: the OrderRecord of an accepted request.
OrderRecord(ev) ==
    [buy_sell |-> ActionInt(ev.type), long_short |-> DirInt(ev.direction),
     price |-> ev.price, qty |-> ev.qty, tag |-> ev.tag, filled_qty |-> 0, trades |-> << >>]

(***************************************************************************)
(* SpecSwing: a session from start.  The market delivers ticks, the broker *)
(* answers the requests in the order they were put in the engine, trades   *)
(* an open order for at most its quantity and ends it with one status:     *)
(* Closed when it is filled, Cancelled when a cancel was asked for it.     *)
(* Events of the market and the broker arrive between any two events of    *)
(* the engine.                                                             *)
(***************************************************************************)
P0Ticks == 20
MaxOrders == 6
MaxTicks == 8

\* The price limits of the exchange on an ordinary day, in grids under and
\* over the start price.
LimitDown == 10

LimitUp == 10

SwingParams ==
    [direction |-> DIRECTION_LONG, start_zone |-> "Inc", p0 |-> P0Ticks * Tick,
     pls |-> [n |-> 1, d |-> 25], ph |-> Tick, pt |-> 0, q_max |-> 10, qa |-> 2,
     q_offset |-> [n \in ZoneNameSet |-> << 0, 0 >>],
     g_risky |-> 10, g0 |-> 10, gt |-> 50, principal |-> 100]

\* A tick of the market: the price, at a whole number of grids from the
\* start price, and the gain of the portfolio at that tick.
At(level, gain) ==
    [price |-> (P0Ticks + level) * Tick, gain |-> gain,
     low_limit |-> (P0Ticks - LimitDown) * Tick, high_limit |-> (P0Ticks + LimitUp) * Tick]

\* A tick of a market that trades at its upper or at its lower price limit.
AtHighLimit(level, gain) == [At(level, gain) EXCEPT !.high_limit = (P0Ticks + level) * Tick]

AtLowLimit(level, gain) == [At(level, gain) EXCEPT !.low_limit = (P0Ticks + level) * Tick]

\* A long session that starts in the Inc zone.  The market falls to the Net
\* zone; the gain reaches the target and falls back, or the value falls
\* under the risk threshold and recovers.
LongSession ==
    [params |-> SwingParams, net_of_orders |-> TRUE,
     market |-> << {At(0, 5)},
                   {At(0 - 5, 5), At(0 - 5, 10)},
                   {At(0 - 5, 5), At(0 - 5, 0 - 20)},
                   {AtHighLimit(0 - 5, 5), At(0 - 5, 0 - 20)},
                   {At(0 - 6, 0 - 20)},
                   {At(0 - 6, 10), At(0 - 6, 0 - 20)},
                   {At(0 - 6, 10)},
                   {At(0 - 6, 5), AtLowLimit(0, 5)} >>]

\* A short session that starts in the Dec zone.  The market rises past the
\* reversal threshold, runs away from the reversal orders and comes back.
ShortSession ==
    [params |-> [SwingParams EXCEPT !.direction = DIRECTION_SHORT, !.start_zone = "Dec", !.q_max = 2],
     net_of_orders |-> TRUE,
     market |-> << {At(0, 5)},
                   {At(1, 5)},
                   {At(2, 5), At(1, 5)},
                   {At(9, 5), At(2, 5)},
                   {At(9, 5)},
                   {At(9, 5), At(1, 5)},
                   {At(1, 5), At(2, 5)},
                   {At(2, 5), At(1, 5)} >>]

\* A long session that starts in the Net zone: it waits in Start while the
\* market trades over the start price, then buys its opening position with
\* the reversal orders; the market stays, or runs away from them.  With
\* q_max = 1 the opening quantity rounds to 0 and no order is made.
NetSession ==
    [params |-> [SwingParams EXCEPT !.start_zone = "Net", !.q_max = 2],
     net_of_orders |-> TRUE,
     market |-> << {At(1, 5)},
                   {At(1, 5), At(0, 5)},
                   {At(0, 5)},
                   {At(0, 5), At(3, 5)},
                   {At(0, 5), At(7, 5)},
                   {At(0, 5)},
                   {At(0 - 1, 5), At(0, 5)},
                   {At(0, 5)} >>]

NetSessions == {NetSession, [NetSession EXCEPT !.params.q_max = 1]}

\* The long session with a trailing ratio of 55 %: the lower bound of the
\* gain, 4.3 cents, and the trailing target of a gain of 10 cents, 5.5
\* cents, are not whole cents; the gain falls back from 10 to 5 or to 4
\* cents.  From the Net zone the market may rise past the Inc zone in one
\* tick.
CentSession ==
    [LongSession EXCEPT !.params.gt = 55,
                        !.market[3] = {At(0 - 5, 5), At(5, 5)},
                        !.market[8] = {At(0 - 6, 5), At(0 - 6, 4)}]

\* A long session whose gain reaches the target and falls back while it
\* holds the position of the Net zone; the market then falls away from the
\* stop order, by the retry step and again.
DropSession ==
    [LongSession EXCEPT !.market = << {At(0, 5)},
                                      {At(0 - 5, 10)},
                                      {At(0 - 5, 5)},
                                      {At(0 - 5, 5), At(0 - 8, 5)},
                                      {At(0 - 8, 5)},
                                      {At(0 - 8, 5), At(0 - 11, 5)},
                                      {At(0 - 11, 5)},
                                      {At(0 - 11, 5)} >>]

Sessions ==
    {[session EXCEPT !.net_of_orders = b] : session \in {LongSession, ShortSession}, b \in BOOLEAN}
        \cup NetSessions \cup {CentSession, DropSession}

InitSwing ==
    /\ NoGrid
    /\ contract = NoContract
    /\ ao = << >>
    /\ ao_ret = NoRet
    /\ bk = [next_id |-> 1, cancel_req |-> {}, ticks |-> 0]
    /\ cfg \in Sessions
    /\ sw = SwingNew(cfg.params)
    /\ strat = [active |-> TRUE, gain |-> 0, position_qty |-> << 0, 0 >>, order_dict |-> << >>, trade_dict |-> << >>]
    /\ queue = << >>
    /\ pm = << >>

\* on_tick: the contract update and strategy_rules_on_tick
Sw_OnTick ==
    /\ strat.active
    /\ bk.ticks < MaxTicks
    /\ \E tick \in cfg.market[Min(bk.ticks + 1, Len(cfg.market))] :
           \E r \in {RulesOnTick(cfg.params, sw, strat,
                                 [last |-> Quantize(tick.price), bid |-> Quantize(tick.price),
                                  ask |-> Quantize(tick.price + Tick)], tick.gain)} :
               /\ contract' = [last |-> Quantize(tick.price), bid |-> Quantize(tick.price),
                               ask |-> Quantize(tick.price + Tick),
                               low_limit |-> Quantize(tick.low_limit), high_limit |-> Quantize(tick.high_limit)]
               /\ sw' = r.sw
               /\ strat' = [strat EXCEPT !.active = r.active, !.gain = tick.gain]
               /\ queue' = queue \o r.out
    /\ bk' = [bk EXCEPT !.ticks = @ + 1]
    /\ UNCHANGED << ao, ao_ret, gridVars, pm, cfg >>

\* Variant: every price is taken as within the limits.
PriceValid_Always(c, price) == TRUE

\* on_buy / on_sell: the price is within the limits of the exchange.
PriceValid(c, price) == c.low_limit <= price /\ price <= c.high_limit

\* on_buy / on_sell: the request is refused (by the price limits, the
\* position check of on_sell or the broker) or accepted as one order.  The
\* broker accepts a Sell order for a position no other order holds.
Sw_OnBuySell ==
    /\ queue # << >>
    /\ Head(queue).type \in {BUY, SELL}
    /\ LET ev == Head(queue)
           order_id == bk.next_id
           order == OrderRecord(ev)
           price_valid == PriceValid(contract, ev.price)
           enough == ev.type = BUY \/ ev.qty <= GetTradedQty(strat, DirInt(ev.direction))
           held == ev.type = BUY \/ ev.qty <= FreeQty(strat, DirInt(ev.direction))
       IN \/ /\ price_valid
             /\ enough
             /\ held
             /\ bk.next_id <= MaxOrders
             /\ strat' = [strat EXCEPT !.order_dict =
                          [k \in DOMAIN @ \cup {order_id} |-> IF k = order_id THEN order ELSE @[k]]]
             /\ sw' = RulesOnSuccess(sw, order_id, order)
             /\ bk' = [bk EXCEPT !.next_id = @ + 1]
          \/ /\ sw' = RulesOnFail(sw, ev.tag)
             /\ UNCHANGED << strat, bk >>
    /\ queue' = Tail(queue)
    /\ UNCHANGED << contract, ao, ao_ret, gridVars, pm, cfg >>

\* on_cancel: the broker is asked to cancel the orders.
Sw_OnCancel ==
    /\ queue # << >>
    /\ Head(queue).type \in {"CANCEL_ALL", "CANCEL_ORDERS"}
    /\ bk' = [bk EXCEPT !.cancel_req =
                 @ \cup (IF Head(queue).type = "CANCEL_ALL" THEN DOMAIN strat.order_dict
                         ELSE Head(queue).order_ids \cap DOMAIN strat.order_dict)]
    /\ queue' = Tail(queue)
    /\ UNCHANGED << contract, ao, ao_ret, gridVars, pm, cfg, sw, strat >>

\* The id the broker gives the next trade of the order.
TradeId(order_id, order) == 2 * order_id + Len(order.trades)

\* on_trade_update: a trade of the rest of an order, or of one of it as the
\* first of two trades.
Sw_OnTradeUpdate ==
    /\ \E order_id \in DOMAIN strat.order_dict :
           LET order == strat.order_dict[order_id] IN
           /\ order.filled_qty < order.qty
           /\ \E trade_qty \in {order.qty - order.filled_qty}
                                \cup (IF order.filled_qty = 0 /\ order.qty > 1 THEN {1} ELSE {}) :
                  /\ strat' = [strat EXCEPT !.trade_dict =
                                          [k \in DOMAIN @ \cup {TradeId(order_id, order)} |->
                                              IF k = TradeId(order_id, order)
                                              THEN [order_id |-> order_id, price |-> order.price, qty |-> trade_qty]
                                              ELSE @[k]],
                                      !.order_dict[order_id].filled_qty = @ + trade_qty,
                                      !.order_dict[order_id].trades = Append(@, TradeId(order_id, order)),
                                      !.position_qty = UpdatePositionQty(@, order.buy_sell, order.long_short, trade_qty)]
                  /\ sw' = RulesOnTradeUpdate(sw, order_id, order, order.price, trade_qty)
    /\ UNCHANGED << contract, ao, ao_ret, gridVars, pm, cfg, bk, queue >>

\* on_order_status: the broker reports an order it has accepted as ended:
\* filled (as "closed" or as "executed") or cancelled on request (as
\* "cancelled" or as "repeat_cancel"), and it may report the end of an order
\* again.
Sw_OnOrderStatus ==
    /\ \E order_id \in 1..(bk.next_id - 1) :
       \E order_status \in {ORDER_CLOSED, ORDER_CLOSED_ALIAS, ORDER_CANCELLED, ORDER_REPEAT_CANCEL} :
           /\ order_id \in DOMAIN strat.order_dict =>
                  IF strat.order_dict[order_id].filled_qty = strat.order_dict[order_id].qty
                  THEN order_status \in {ORDER_CLOSED, ORDER_CLOSED_ALIAS}
                  ELSE order_id \in bk.cancel_req /\ order_status \in {ORDER_CANCELLED, ORDER_REPEAT_CANCEL}
           /\ \E r \in {OnOrderStatus(strat, sw, order_id, order_status)} :
                  /\ strat' = r.strat
                  /\ sw' = r.sw
                  /\ bk' = [bk EXCEPT !.cancel_req =
                               IF order_id \in DOMAIN r.strat.order_dict THEN @ ELSE @ \ {order_id}]
    /\ UNCHANGED << contract, ao, ao_ret, gridVars, pm, cfg, queue >>

NextSwing == Sw_OnTick \/ Sw_OnBuySell \/ Sw_OnCancel \/ Sw_OnTradeUpdate \/ Sw_OnOrderStatus

SpecSwing == InitSwing /\ [][NextSwing]_vars

\* The same sessions, where the engine does not leave the event at the head
\* of its queue unhandled forever.
SpecSwingFair ==
    InitSwing /\ [][NextSwing]_vars /\ WF_vars(Sw_OnBuySell) /\ WF_vars(Sw_OnCancel)

(***************************************************************************)
(* Claims on the state machine of SwingStrategy.                           *)
(***************************************************************************)
\* C2: in GridOsc or RiskyOsc the state changes only on a tick at which
\* order_dict is empty.  A transition requested on a tick at which order_dict
\* is non-empty leaves the state as it is and records the requested state
\* (state_cleanup); while the request is recorded and order_dict is non-empty
\* no step changes the state or the request; the first state taken when the
\* request is applied is the requested one (Stop, Reversal, RiskyInit or
\* GridOsc; from Stop a session with no position goes on to Finish on the
\* same tick).
C2_CleanupBeforeTransition ==
    [][LET HasOrders == DOMAIN strat.order_dict # {} IN
       /\ (sw.state \in {SWING_GRID_OSC, SWING_RISKY_OSC} /\ sw'.state # sw.state)
           => (~HasOrders /\ ~sw'.state_cleanup)
       /\ (~sw.state_cleanup /\ sw'.state_cleanup)
           => /\ HasOrders
              /\ sw.state \in {SWING_GRID_OSC, SWING_RISKY_OSC}
              /\ sw'.state = sw.state
              /\ sw'.next_state_after_cleanup
                    \in {SWING_STOP, SWING_REVERSAL, SWING_RISKY_INIT, SWING_GRID_OSC}
       /\ (sw.state_cleanup /\ HasOrders)
           => /\ sw'.state = sw.state
              /\ sw'.state_cleanup
              /\ sw'.next_state_after_cleanup = sw.next_state_after_cleanup
       /\ (sw.state_cleanup /\ sw'.state # sw.state)
           => \/ sw'.state = sw.next_state_after_cleanup
              \/ /\ sw.next_state_after_cleanup = SWING_STOP
                 /\ sw'.state = SWING_FINISH
                 /\ strat.position_qty = << 0, 0 >>]_vars

\* C2 witness: a transition was requested in RiskyOsc with an order open; the
\* cancel reached the broker and the order is still open, the state is still
\* RiskyOsc.
C2_Witness ==
    /\ sw.state = SWING_RISKY_OSC
    /\ sw.state_cleanup
    /\ DOMAIN strat.order_dict # {}
    /\ bk.cancel_req # {}

\* C8: in GridOsc, with the planned zones built, no step takes the net
\* position of the session from non-negative to negative (long - short in a
\* long session, short - long in a short session).
C8_GridKeepsNetSign ==
    [][(/\ sw.state = SWING_GRID_OSC
        /\ sw'.state = SWING_GRID_OSC
        /\ DOMAIN sw.zones # {}
        /\ (1 - 2 * sw.long_short) * NetPosition(strat) >= 0)
       => (1 - 2 * sw'.long_short) * NetPosition(strat') >= 0]_vars

C11_TerminalStatusRemoves ==
    \A order_id \in DOMAIN strat.order_dict :
        \A order_status \in {ORDER_CLOSED, ORDER_CLOSED_ALIAS, ORDER_REJECTED, ORDER_CANCELLED, ORDER_REPEAT_CANCEL} :
            LET After(t) ==
                    /\ order_id \notin DOMAIN t.order_dict
                    /\ \A k \in DOMAIN t.trade_dict :
                           /\ t.trade_dict[k].order_id # order_id
                           /\ t.trade_dict[k].order_id \in DOMAIN t.order_dict
            IN After(OnOrderStatus(strat, sw, order_id, order_status).strat)

\* C12: a terminal order status event for an order whose record has been
\* removed changes nothing: order_dict, trade_dict, the swing state and every
\* AdaptiveOrder and GridOscillator are as before, and
\* strategy_rules_on_order_status is not called.
C12_RedeliveryNoOp ==
    \A order_id \in 1..(bk.next_id - 1) \ DOMAIN strat.order_dict :
        \A order_status \in {ORDER_CLOSED, ORDER_CLOSED_ALIAS, ORDER_REJECTED, ORDER_CANCELLED, ORDER_REPEAT_CANCEL} :
            OnOrderStatus(strat, sw, order_id, order_status) = [strat |-> strat, sw |-> sw, called |-> FALSE]

\* C12 witness: the record of an order is gone, another order still has
\* trades on record, and an AdaptiveOrder the session is running still
\* carries the id of the removed order.
C12_Witness ==
    /\ sw.state \in {SWING_REVERSAL, SWING_RISKY_INIT, SWING_STOP}
    /\ DOMAIN strat.trade_dict # {}
    /\ LET Carried(orders) ==
               \E i \in DOMAIN orders :
                   orders[i].last_order_id \in 1..(bk.next_id - 1) \ DOMAIN strat.order_dict
       IN Carried(IF sw.state = SWING_REVERSAL THEN sw.reversal_orders
                  ELSE IF sw.state = SWING_RISKY_INIT THEN sw.risky_init_orders
                  ELSE sw.stop_orders)

(***************************************************************************)
(* Claims on the states Reversal, Stop and Finish.                         *)
(***************************************************************************)
\* C15: on the tick at which every reversal AdaptiveOrder reports finished
\* the session goes to GridOsc with the zones discarded, start_zone "Net",
\* start_zone_mid_price the quantity-weighted fill price of the legs on the
\* tick grid, the reversal orders cleared, risky_base_val the net value at
\* the tick and risky_base_qty the position in the working direction; the
\* tick that takes GridOsc to Reversal turns long_short over and the finish
\* keeps it.
C15_ReversalFinish ==
    [][/\ (/\ bk'.ticks # bk.ticks
            /\ sw.state = SWING_REVERSAL
            /\ sw.reversal_orders # << >>
            /\ RunOrders(sw.reversal_orders, contract').finished)
           => /\ sw'.state = SWING_GRID_OSC
              /\ sw'.zones = << >>
              /\ sw'.start_zone = "Net"
              /\ FilledQty(sw.reversal_orders) > 0
                    => sw'.start_zone_mid_price = FilledPrice(sw.reversal_orders)
              /\ sw'.reversal_orders = << >>
              /\ sw'.risky_base_val = cfg.params.principal + strat'.gain
              /\ sw'.risky_base_qty = (1 - 2 * sw'.long_short) * NetPosition(strat)
              /\ sw'.long_short = sw.long_short
       /\ (bk'.ticks # bk.ticks /\ sw.state = SWING_GRID_OSC /\ sw'.state = SWING_REVERSAL)
           => sw'.long_short = 1 - sw.long_short]_vars

\* C16: when every reversal AdaptiveOrder reports finished and the first leg
\* has filled nothing, the session still goes to GridOsc on that tick; when
\* no leg has filled anything start_zone_mid_price is the order price of the
\* first reversal order.
C16_ReversalFinishNoFill ==
    [][(/\ bk'.ticks # bk.ticks
        /\ sw.state = SWING_REVERSAL
        /\ sw.reversal_orders # << >>
        /\ RunOrders(sw.reversal_orders, contract').finished
        /\ sw.reversal_orders[1].filled_qty = 0)
       => /\ sw'.state = SWING_GRID_OSC
          /\ FilledQty(sw.reversal_orders) = 0
                => sw'.start_zone_mid_price = sw.reversal_orders[1].order_price]_vars

\* C17: in GridOsc with the active zone in Init and order_dict non-empty, a
\* tick on which the trailing stop triggers puts a cancel-all and no Buy or
\* Sell in the engine, sets state_cleanup and next_state_after_cleanup =
\* Stop and keeps the state; the tick after order_dict has been emptied
\* clears both cleanup fields, takes the state Stop and runs it on the same
\* tick: one stop order and one Sell request for each side with a position,
\* or Finish for a session with no position.
C17_TrailingStopCleanup ==
    [][/\ (/\ bk'.ticks # bk.ticks
            /\ sw.state = SWING_GRID_OSC
            /\ ~sw.state_cleanup
            /\ ActiveZone(sw) # << >>
            /\ ActiveZone(sw)[1].state = G_INIT
            /\ DOMAIN strat.order_dict # {}
            /\ TrailingStop(cfg.params, sw, strat'.gain).triggered)
           => /\ queue' = queue \o << CancelAllOrders >>
              /\ sw'.state = SWING_GRID_OSC
              /\ sw'.state_cleanup
              /\ sw'.next_state_after_cleanup = SWING_STOP
       /\ (/\ bk'.ticks # bk.ticks
            /\ sw.state = SWING_GRID_OSC
            /\ sw.state_cleanup
            /\ sw.next_state_after_cleanup = SWING_STOP
            /\ DOMAIN strat.order_dict = {})
           => LET sides == {long_short \in {0, 1} : strat.position_qty[long_short + 1] > 0} IN
              /\ ~sw'.state_cleanup
              /\ sw'.next_state_after_cleanup = None
              /\ sw'.state = IF sides = {} THEN SWING_FINISH ELSE SWING_STOP
              /\ Len(sw'.stop_orders) = Cardinality(sides)
              /\ Len(queue') = Len(queue) + Cardinality(sides)
              /\ \A i \in Len(queue) + 1..Len(queue') : queue'[i].type = SELL]_vars

\* C17 witness: the trailing stop asked for Stop with orders open, the
\* status events have emptied order_dict and the next tick is to come.
C17_Witness ==
    /\ sw.state = SWING_GRID_OSC
    /\ sw.state_cleanup
    /\ sw.next_state_after_cleanup = SWING_STOP
    /\ DOMAIN strat.order_dict = {}
    /\ strat.position_qty # << 0, 0 >>
    /\ bk.ticks < MaxTicks

\* C18: the tick that takes the session to Stop creates one Sell
\* AdaptiveOrder for each side with a position > 0, for the quantity of that
\* side, and none for a side with no position; a session with no position
\* goes through Stop to Finish on that tick, and no other session does; in
\* Stop the state becomes Finish on the tick, and only on the tick, at which
\* every stop order reports finished.
C18_StopOrders ==
    [][/\ (bk'.ticks # bk.ticks /\ sw.state \notin {SWING_STOP, SWING_FINISH} /\ sw'.state = SWING_STOP)
           => /\ strat.position_qty # << 0, 0 >>
              /\ \A long_short \in {0, 1} :
                     LET created == {i \in DOMAIN sw'.stop_orders :
                                        sw'.stop_orders[i].direction = DirOf(long_short)}
                     IN /\ Cardinality(created) = IF strat.position_qty[long_short + 1] > 0 THEN 1 ELSE 0
                        /\ \A i \in created :
                               /\ sw'.stop_orders[i].buy_or_sell = SELL
                               /\ sw'.stop_orders[i].order_qty = strat.position_qty[long_short + 1]
       /\ (bk'.ticks # bk.ticks /\ sw.state \notin {SWING_STOP, SWING_FINISH} /\ sw'.state = SWING_FINISH)
           => strat.position_qty = << 0, 0 >>
       /\ (bk'.ticks # bk.ticks /\ sw.state = SWING_STOP)
           => /\ sw.stop_orders # << >>
              /\ sw'.state = IF RunOrders(sw.stop_orders, contract').finished
                             THEN SWING_FINISH ELSE SWING_STOP
       /\ (bk'.ticks = bk.ticks /\ sw.state = SWING_STOP) => sw'.state = SWING_STOP]_vars

\* C18 witness: in Stop, with one stop order for the one side that had a
\* position; the order has been filled and the next tick is to come.
C18_Witness ==
    /\ sw.state = SWING_STOP
    /\ Len(sw.stop_orders) = 1
    /\ sw.stop_orders[1].state = AO_FILLED
    /\ strat.position_qty = << 0, 0 >>
    /\ bk.ticks < MaxTicks

\* C19: once the state is Finish it stays Finish; the tick handled in Finish
\* marks the strategy inactive, an inactive strategy handles no tick and
\* stays inactive, and no step taken in Finish (tick, acknowledgement, trade
\* or order status) puts a Buy, Sell or Cancel in the engine.
C19_FinishAbsorbing ==
    [][sw.state = SWING_FINISH
       => /\ sw'.state = SWING_FINISH
          /\ queue' = queue \/ (queue # << >> /\ queue' = Tail(queue))
          /\ bk'.ticks # bk.ticks => ~strat'.active
          /\ ~strat.active => (~strat'.active /\ bk'.ticks = bk.ticks)]_vars

\* C19 witness: the session has traded, sold its position in Stop, reached
\* Finish and handled a tick there.
C19_Witness ==
    /\ sw.state = SWING_FINISH
    /\ ~strat.active
    /\ strat.position_qty = << 0, 0 >>
    /\ bk.next_id > 2

(***************************************************************************)
(* Claims on the errors of the broker interface.                           *)
(***************************************************************************)
\* C20: a Buy or Sell request with a price outside [low_limit, high_limit]
\* is not sent to the broker and adds no OrderRecord; the fail callback of
\* the owner runs once and nothing else changes: an AdaptiveOrder in Req
\* goes to Init with its mode stack as it was, a GridOscillator in Req goes
\* to Init and one in Split to Req.
C20_PriceOutOfLimit ==
    [][(/\ queue # << >>
        /\ Head(queue).type \in {BUY, SELL}
        /\ ~(contract.low_limit <= Head(queue).price /\ Head(queue).price <= contract.high_limit)
        /\ queue' = Tail(queue))
       => LET tag == Head(queue).tag
              AOFail(orders) ==
                  [i \in DOMAIN orders |->
                      IF i = IndexByTag(orders, tag) /\ orders[i].state = AO_REQ
                      THEN [orders[i] EXCEPT !.state = AO_INIT] ELSE orders[i]]
              GFail(z) ==
                  IF z.state = G_REQ THEN [z EXCEPT !.state = G_INIT]
                  ELSE IF z.state = G_SPLIT THEN [z EXCEPT !.state = G_REQ]
                  ELSE z
          IN /\ strat' = strat
             /\ bk' = bk
             /\ sw' = IF sw.state = SWING_REVERSAL THEN [sw EXCEPT !.reversal_orders = AOFail(@)]
                      ELSE IF sw.state = SWING_RISKY_INIT THEN [sw EXCEPT !.risky_init_orders = AOFail(@)]
                      ELSE IF sw.state = SWING_STOP THEN [sw EXCEPT !.stop_orders = AOFail(@)]
                      ELSE IF sw.state = SWING_GRID_OSC /\ tag \in DOMAIN sw.zones
                      THEN [sw EXCEPT !.zones[tag] = GFail(@)]
                      ELSE IF sw.state = SWING_RISKY_OSC /\ sw.risky_osc_zone # << >>
                      THEN [sw EXCEPT !.risky_osc_zone[1] = GFail(@)]
                      ELSE sw]_vars

\* C20 witness: in Stop the Sell request of a stop order, quoted over the
\* last price of a market that trades at its upper limit, is at the head of
\* the engine and the order waits in Req.
C20_Witness ==
    /\ sw.state = SWING_STOP
    /\ queue # << >>
    /\ Head(queue).type = SELL
    /\ Head(queue).price > contract.high_limit
    /\ IndexByTag(sw.stop_orders, Head(queue).tag) # 0
    /\ sw.stop_orders[IndexByTag(sw.stop_orders, Head(queue).tag)].state = AO_REQ

(***************************************************************************)
(* Claims on the start of a session.                                       *)
(***************************************************************************)
\* The direction the session was configured with.
ConfiguredLongShort == IF cfg.params.direction = DIRECTION_SHORT THEN 1 ELSE 0

\* C21: on a tick in Start with d * (last - p0) > 0, d = 1 - 2 * long_short,
\* _swing_start_run leaves every field as it is and the tick ends there: the
\* state stays Start, long_short is unchanged and nothing is put in the
\* engine.  On a tick with d * (last - p0) <= 0 _swing_start_run makes the
\* state Reversal and flips long_short if start_zone is Net, and makes the
\* state GridOsc with long_short unchanged otherwise; the rest of the tick
\* then runs in that state, and the session is never in Start again.
C21_StartState ==
    [][/\ (bk'.ticks # bk.ticks /\ sw.state = SWING_START)
            => LET d == 1 - 2 * sw.long_short
                   wait == d * (contract'.last - cfg.params.p0) > 0
                   net == cfg.params.start_zone = "Net"
                   r == SwingStartRun(cfg.params, sw, contract')
               IN  /\ wait => /\ ~r.ok
                              /\ r.sw = sw
                              /\ sw' = sw
                              /\ queue' = queue
                              /\ strat'.active
                   /\ ~wait => /\ r.ok
                               /\ r.sw = [sw EXCEPT
                                            !.state = IF net THEN SWING_REVERSAL
                                                      ELSE SWING_GRID_OSC,
                                            !.long_short = IF net THEN 1 - @ ELSE @]
                               /\ sw'.state # SWING_START
                               /\ ~net => sw'.long_short = sw.long_short
       /\ (bk'.ticks = bk.ticks /\ sw.state = SWING_START) => sw' = sw
       /\ sw.state # SWING_START => sw'.state # SWING_START]_vars

\* C21 witness: a session that starts in the Net zone has waited in Start
\* for two ticks over the start price.
C21_Witness ==
    /\ sw.state = SWING_START
    /\ bk.ticks = 2
    /\ cfg.params.start_zone = "Net"
    /\ (1 - 2 * sw.long_short) * (contract.last - cfg.params.p0) > 0

\* The session is in the Reversal it entered from Start: no zone has been
\* planned and none was active.
FirstReversal == sw.state = SWING_REVERSAL /\ sw.active_zone = "None" /\ DOMAIN sw.zones = {}

\* C22: in a session that starts in the Net zone, the tick that leaves Start
\* flips long_short in _swing_start_run and flips it back when the Reversal
\* run, on the same tick, makes its orders (also when no leg has a quantity
\* > 0 and no order is made); no later step of that Reversal (a tick on
\* which the orders are not finished, an acknowledgement, a trade, an order
\* status) flips it again.  So long_short is the configured direction in
\* Start, all through that Reversal and when GridOsc is entered for the first
\* time.
C22_DoubleFlip ==
    [][cfg.params.start_zone = "Net"
       => /\ sw.state = SWING_START => sw.long_short = ConfiguredLongShort
          /\ (sw.state = SWING_START /\ sw'.state # SWING_START)
               => /\ SwingStartRun(cfg.params, sw, contract').sw.long_short
                        = 1 - ConfiguredLongShort
                  /\ sw'.long_short = ConfiguredLongShort
                  /\ FirstReversal' \/ sw'.state = SWING_GRID_OSC
          /\ FirstReversal
               => /\ sw'.long_short = sw.long_short
                  /\ FirstReversal' \/ sw'.state = SWING_GRID_OSC
          /\ ((sw.state = SWING_START \/ FirstReversal) /\ sw'.state = SWING_GRID_OSC)
               => sw'.long_short = ConfiguredLongShort]_vars

\* C22 witness: the session has started in the Net zone, a first quote of its
\* reversal order ended and a later one was filled, the Reversal has finished
\* and the session is in GridOsc in the configured direction, with no zone
\* planned yet.
C22_Witness ==
    /\ cfg.params.start_zone = "Net"
    /\ sw.state = SWING_GRID_OSC
    /\ DOMAIN sw.zones = {}
    /\ sw.reversal_orders = << >>
    /\ sw.long_short = ConfiguredLongShort
    /\ bk.next_id > 2
    /\ strat.position_qty[ConfiguredLongShort + 1] > 0

(***************************************************************************)
(* Claims on the trailing stop, the zones and the risky states.            *)
(***************************************************************************)
\* The trailing stop as stated, on exact amounts (exact) or on amounts
\* rounded to the cent as round(x, 2) gives them: max_gain after the reset
\* and the update, and whether the check triggers.
C32_Expected(p, max_gain, gain, exact) ==
    LET Amount(n, d) == IF exact THEN [n |-> n, d |-> d] ELSE [n |-> RoundDiv(n, d), d |-> 1]
        AtLeast(a, b) == a * b.d >= b.n
        gain_lower_bound == Amount(p.principal * p.g0 * (100 - p.gt - STOP_GAIN_LOWER_BOUND_TH), 10000)
        new_max == Max(IF AtLeast(gain, gain_lower_bound) THEN max_gain ELSE 0 - Inf, gain)
    IN [max_gain |-> new_max,
        triggered |-> /\ AtLeast(gain, gain_lower_bound)
                      /\ AtLeast(new_max, Amount(p.g0 * p.principal, 100))
                      /\ AtLeast(new_max - gain, Amount(p.gt * new_max, 100))]

\* The trailing stop is evaluated on this tick: the session is in GridOsc
\* or RiskyOsc, its zone is not in Req or Split and no cleanup is in
\* progress.
C32_Evaluated ==
    /\ bk'.ticks # bk.ticks
    /\ sw.state \in {SWING_GRID_OSC, SWING_RISKY_OSC}
    /\ ~sw.state_cleanup
    /\ LET z == IF sw.state = SWING_GRID_OSC THEN ActiveZone(sw) ELSE sw.risky_osc_zone
       IN z = << >> \/ z[1].state = G_INIT

\* C32 (as stated): max_gain and the trigger follow the exact amounts
\* principal*g0*(1 - gt - 0.02), principal*g0 and gt*max_gain.
C32_TrailingStopExact ==
    [][C32_Evaluated =>
         LET e == C32_Expected(cfg.params, sw.max_gain, strat'.gain, TRUE)
         IN /\ sw'.max_gain = e.max_gain
            /\ e.triggered <=> \/ sw'.state \in {SWING_STOP, SWING_FINISH}
                               \/ sw'.state_cleanup /\ sw'.next_state_after_cleanup = SWING_STOP]_vars

\* C32 (amended): at each evaluation max_gain is first reset to -Inf if
\* gain < gain_lower_bound and then set to max(max_gain, gain); the check
\* triggers exactly when gain >= gain_lower_bound, max_gain >= target_gain
\* and round(max_gain - gain, 2) >= trailing_target, where gain_lower_bound,
\* target_gain and trailing_target are principal*g0*(1 - gt - 0.02),
\* principal*g0 and gt*max_gain rounded to 2 decimals; on trigger the state
\* goes to Stop at once if order_dict is empty (and on to Finish on the same
\* tick with no position), otherwise all orders are cancelled and the
\* cleanup is set with target Stop; in a tick with the zone in Req or Split
\* or with the cleanup in progress, and in every other step, max_gain is
\* left as it is and no stop is requested.
C32_TrailingStop ==
    [][/\ C32_Evaluated =>
            LET e == C32_Expected(cfg.params, sw.max_gain, strat'.gain, FALSE)
                stop_requested == sw'.state_cleanup /\ sw'.next_state_after_cleanup = SWING_STOP
            IN /\ sw'.max_gain = e.max_gain
               /\ (e.triggered /\ DOMAIN strat.order_dict = {})
                    => /\ sw'.state \in {SWING_STOP, SWING_FINISH}
                       /\ ~sw'.state_cleanup
                       /\ sw'.next_state_after_cleanup = None
                       /\ Len(queue') = Len(queue) + Len(sw'.stop_orders)
                       /\ \A i \in Len(queue) + 1..Len(queue') : queue'[i].type = SELL
               /\ (e.triggered /\ DOMAIN strat.order_dict # {})
                    => /\ sw'.state = sw.state
                       /\ stop_requested
                       /\ queue' = queue \o << CancelAllOrders >>
               /\ ~e.triggered => (~stop_requested /\ sw'.state \notin {SWING_STOP, SWING_FINISH})
       /\ (~C32_Evaluated /\ sw.state \in {SWING_GRID_OSC, SWING_RISKY_OSC})
            => /\ sw'.max_gain = sw.max_gain
               /\ sw'.state \notin {SWING_STOP, SWING_FINISH}
                    => (sw'.next_state_after_cleanup = SWING_STOP
                            => sw.next_state_after_cleanup = SWING_STOP)]_vars

\* C32 witness: the gain has reached the target and fallen back to a value
\* that is under the exact lower bound and not under the rounded one; the
\* stop was requested with orders open.
C32_Witness ==
    /\ sw.state = SWING_GRID_OSC
    /\ sw.state_cleanup
    /\ sw.next_state_after_cleanup = SWING_STOP
    /\ DOMAIN strat.order_dict # {}
    /\ bk.ticks = MaxTicks
    /\ sw.max_gain = 10
    /\ strat.gain = 4
    /\ 10000 * strat.gain < cfg.params.principal * cfg.params.g0 * (100 - cfg.params.gt - STOP_GAIN_LOWER_BOUND_TH)

\* C33: on a tick that runs the GridOsc zones, if last is at least one grid
\* beyond a non-extendable boundary of the active zone, the active zone
\* becomes the nearest zone on that side for which this does not hold (every
\* zone passed on the way is a grid or more behind last too), and it has the
\* last_order_price and the peak of the previous active zone; otherwise the
\* active zone is kept; the active zone is always one of Net..Dec or none,
\* and a boundary with extension enabled causes no switch.
C33_ActiveZoneSwitch ==
    /\ [](sw # << >> => (sw.active_zone = "None" \/ sw.active_zone \in ZoneNameSet))
    /\ [][(/\ bk'.ticks # bk.ticks
           /\ sw.state = SWING_GRID_OSC /\ sw'.state = SWING_GRID_OSC
           /\ ~sw.state_cleanup /\ ~sw'.state_cleanup
           /\ DOMAIN sw.zones # {}
           /\ sw.zones[sw.active_zone].state = G_INIT)
          => LET last == contract'.last
                 old == sw.zones[sw.active_zone]
                 new == sw'.zones[sw'.active_zone]
                 Beyond(z, direction) ==
                     /\ ~z.ext[direction + 1]
                     /\ Sign(direction) * (z.bounds[direction + 1] - last) >= cfg.params.ph
                 Behind(z, y, direction) ==
                     Sign(direction) * (y.bounds[direction + 1] - z.bounds[direction + 1]) > 0
             IN /\ \A direction \in {0, 1} :
                      Beyond(old, direction)
                        => /\ Behind(new, old, direction)
                           /\ ~Beyond(new, direction)
                           /\ \A n \in ZoneNameSet :
                                  (Behind(sw.zones[n], old, direction) /\ Behind(new, sw.zones[n], direction))
                                    => Beyond(sw.zones[n], direction)
                           /\ new.last_order_price = sw'.zones[sw.active_zone].last_order_price
                           /\ new.peak = sw'.zones[sw.active_zone].peak
                           /\ new.last_order_price = old.last_order_price
                /\ (~Beyond(old, 0) /\ ~Beyond(old, 1)) => sw'.active_zone = sw.active_zone
                /\ \A direction \in {0, 1} :
                      (old.ext[direction + 1] /\ Sign(direction) * (old.bounds[direction + 1] - last) > 0)
                        => /\ sw'.active_zone = sw.active_zone
                           /\ Sign(direction) * (new.bounds[direction + 1] - last) <= 0]_vars

\* C33 witness: the active zone is Osc after a tick that found the Net zone
\* active and last over the Inc zone, which was passed.
C33_Witness ==
    /\ sw.state = SWING_GRID_OSC
    /\ sw.long_short = 0
    /\ sw.active_zone = "Osc"
    /\ sw.start_zone = "Inc"
    /\ contract.last >= sw.zones["Inc"].bounds[2] + cfg.params.ph
    /\ sw.zones["Osc"].peak[1] < sw.zones["Inc"].bounds[1]

\* C34: on a RiskyOsc tick with no cleanup in progress, the risky zone not
\* built yet or in Init, the trailing stop not triggered, and the position
\* in the working direction >= risky_base_qty or nlv > risky_base_val, the
\* session returns to GridOsc: with order_dict empty at once, the risky
\* zone discarded, its last_order_price and its peak (widened by the last
\* price of the tick) with the active planned zone, risky_base_val = nlv and
\* risky_base_qty = the position in the working direction; otherwise all
\* orders are cancelled and the cleanup is set with target GridOsc.
C34_RiskyOscExit ==
    [][(/\ bk'.ticks # bk.ticks
        /\ sw.state = SWING_RISKY_OSC
        /\ ~sw.state_cleanup
        /\ sw.risky_osc_zone = << >> \/ sw.risky_osc_zone[1].state = G_INIT
        /\ ~C32_Expected(cfg.params, sw.max_gain, strat'.gain, FALSE).triggered
        /\ \/ (1 - 2 * sw.long_short) * NetPosition(strat) >= sw.risky_base_qty
           \/ cfg.params.principal + strat'.gain > sw.risky_base_val)
       => IF DOMAIN strat.order_dict = {}
          THEN /\ sw'.state = SWING_GRID_OSC
               /\ ~sw'.state_cleanup
               /\ sw'.risky_osc_zone = << >>
               /\ sw'.risky_base_val = cfg.params.principal + strat'.gain
               /\ sw'.risky_base_qty = (1 - 2 * sw.long_short) * NetPosition(strat)
               /\ sw.risky_osc_zone # << >>
                    => /\ ActiveZone(sw')[1].last_order_price = sw.risky_osc_zone[1].last_order_price
                       /\ ActiveZone(sw')[1].peak = << Min(sw.risky_osc_zone[1].peak[1], contract'.last),
                                                       Max(sw.risky_osc_zone[1].peak[2], contract'.last) >>
          ELSE /\ sw'.state = SWING_RISKY_OSC
               /\ sw'.state_cleanup
               /\ sw'.next_state_after_cleanup = SWING_GRID_OSC
               /\ queue' = queue \o << CancelAllOrders >>]_vars

\* The tick makes the reversal orders: there were none and there are some
\* after it.
C36_OrdersMade ==
    /\ bk'.ticks # bk.ticks
    /\ sw.reversal_orders = << >>
    /\ sw'.reversal_orders # << >>

\* The reversal orders made by the tick are the positive legs of the split
\* of target - (position[working] - position[reverse]), the positions taken
\* in the direction the session has after the flip: first a Sell of the
\* whole reverse-side position, then a Buy on the working side up to the
\* target; every leg is one AdaptiveOrder at the last price with the
\* retries of a reversal.
C36_Sized(target) ==
    LET ls == sw'.long_short
        pa == strat.position_qty[ls + 1]
        par == strat.position_qty[2 - ls]
        order_qty == target - (pa - par)
        sell == Min(par, order_qty)
        buy == Max(0, order_qty - par)
        os == sw'.reversal_orders
        sells == {i \in 1..Len(os) : os[i].buy_or_sell = SELL}
        buys == {i \in 1..Len(os) : os[i].buy_or_sell = BUY}
    IN /\ Len(os) <= 2
       /\ Len(os) = (IF sell > 0 THEN 1 ELSE 0) + (IF buy > 0 THEN 1 ELSE 0)
       /\ Cardinality(sells) = (IF sell > 0 THEN 1 ELSE 0)
       /\ Cardinality(buys) = (IF buy > 0 THEN 1 ELSE 0)
       /\ \A i \in sells : /\ i = 1
                           /\ os[i].direction = DirOf(1 - ls)
                           /\ os[i].order_qty = par
                           /\ os[i].order_tag = "SWING_REVERSAL_SELL"
       /\ \A i \in buys : /\ os[i].direction = DirOf(ls)
                          /\ os[i].order_qty = target - pa
                          /\ os[i].order_tag = "SWING_REVERSAL_BUY"
       /\ \A i \in 1..Len(os) :
              /\ os[i].order_qty > 0
              /\ os[i].order_price = contract'.last
              /\ os[i].retry_step = TREND_REVERSAL_RETRY_STEP
              /\ os[i].filled_qty = 0

\* The tick finishes reversal orders that have all been filled completely.
C36_AllFilled ==
    /\ bk'.ticks # bk.ticks
    /\ sw.state = SWING_REVERSAL
    /\ sw.reversal_orders # << >>
    /\ RunOrders(sw.reversal_orders, contract').finished
    /\ \A i \in 1..Len(sw.reversal_orders) :
           sw.reversal_orders[i].filled_qty = sw.reversal_orders[i].order_qty

\* The positions after a completely filled reversal.
C36_Reversed(target) ==
    /\ strat.position_qty[2 - sw.long_short] = 0
    /\ strat.position_qty[sw.long_short + 1] = target

C37_TickInCleanup ==
    /\ bk'.ticks # bk.ticks
    /\ sw.state \in {SWING_GRID_OSC, SWING_RISKY_OSC}
    /\ sw.state_cleanup

C38_Orders(s) == << s.reversal_orders, s.risky_init_orders, s.stop_orders >>

\* An AdaptiveOrder whose on_tick reports a finished signal: it is Filled or
\* Cancelled.
C38_Finished(o) == o.state \in {AO_FILLED, AO_CANCELLED}

\* The finished signal of an AdaptiveOrder is stable: while the order is in
\* its list no step takes it out of Filled or Cancelled, and on_tick reports
\* Closed or Cancelled with no order parameters and leaves it as it is.
C38_Stable ==
    \A k \in 1..3 : \A i \in 1..Len(C38_Orders(sw)[k]) :
        C38_Finished(C38_Orders(sw)[k][i])
            => /\ AOOnTick(C38_Orders(sw)[k][i], contract').sig \in {ORDER_CLOSED, ORDER_CANCELLED}
               /\ AOOnTick(C38_Orders(sw)[k][i], contract').params = NoParams
               /\ AOOnTick(C38_Orders(sw)[k][i], contract').ao = C38_Orders(sw)[k][i]
               /\ RunAdaptiveOrder(C38_Orders(sw)[k][i], contract').finished
               /\ RunAdaptiveOrder(C38_Orders(sw)[k][i], contract').out = << >>
               /\ i <= Len(C38_Orders(sw')[k]) => C38_Orders(sw')[k][i] = C38_Orders(sw)[k][i]

\* A tick runs the orders of the Reversal, the RiskyInit or the Stop that
\* were made on an earlier tick.
C38_TickRuns(k) ==
    /\ bk'.ticks # bk.ticks
    /\ sw.state = << SWING_REVERSAL, SWING_RISKY_INIT, SWING_STOP >>[k]
    /\ C38_Orders(sw)[k] # << >>

\* C38 as stated: the finished signal is stable, and the Reversal, the
\* RiskyInit and the Stop advance on the tick at which the last of their
\* orders finishes, and on no earlier one.
C38_FinishedStable ==
    [][/\ C38_Stable
       /\ \A k \in 1..3 :
              C38_TickRuns(k)
                  => (RunOrders(C38_Orders(sw)[k], contract').finished
                          <=> sw'.state = << SWING_GRID_OSC, SWING_RISKY_OSC, SWING_FINISH >>[k])]_vars

\* C39: when the session enters Finish the long and the short position are
\* both 0 and order_dict is empty (the broker reports Closed only for orders
\* that are filled completely).  No stop AdaptiveOrder is ever Cancelled:
\* its retries do not run out and its price bound is not crossed.  The Stop
\* is left on a tick, and only when every stop order is Filled for its whole
\* quantity, the position that was held when the Stop began.
C39_FinishFlat ==
    /\ [](/\ \A i \in 1..Len(sw.stop_orders) : sw.stop_orders[i].state # AO_CANCELLED
          /\ sw.state = SWING_FINISH
                => /\ strat.position_qty = << 0, 0 >>
                   /\ DOMAIN strat.order_dict = {})
    /\ [][(sw.state # SWING_FINISH /\ sw'.state = SWING_FINISH)
             => /\ bk'.ticks # bk.ticks
                /\ sw'.stop_orders = << >>
                /\ strat'.position_qty = << 0, 0 >>
                /\ DOMAIN strat'.order_dict = {}
                /\ \A i \in 1..Len(sw.stop_orders) :
                       /\ sw.stop_orders[i].state = AO_FILLED
                       /\ sw.stop_orders[i].filled_qty = sw.stop_orders[i].order_qty]_vars

\* C39 witness: the session has finished after the market fell away from its
\* stop order: the session bought in the Net zone, the stop order was quoted,
\* cancelled and quoted again, and the position is sold.
C39_Witness ==
    /\ sw.state = SWING_FINISH
    /\ contract.last = (P0Ticks - 11) * Tick
    /\ bk.next_id > 3
    /\ strat.position_qty = << 0, 0 >>
    /\ DOMAIN strat.order_dict = {}

\* The tags of the GridOscs of the session that wait for an acknowledgement
\* (Req or Split): planned zones, the RiskyOsc zone, a zone kept by
\* _active_zone alone.
C40_Busy(s) ==
    {n \in DOMAIN s.zones : s.zones[n].state \in {G_REQ, G_SPLIT}}
        \cup {s.risky_osc_zone[i].tag : i \in {j \in 1..Len(s.risky_osc_zone) :
                                                 s.risky_osc_zone[j].state \in {G_REQ, G_SPLIT}}}
        \cup {"stale" : i \in {j \in 1..Len(s.stale_zone) : s.stale_zone[j].state \in {G_REQ, G_SPLIT}}}

\* The Buy and Sell requests in the engine that carry the tag.
C40_Requests(tag) == SelectSeq(queue, LAMBDA ev : ev.type \in {BUY, SELL} /\ ev.tag = tag)

\* The GridOsc with the tag, in the state that emits its requests.
C40_Emitter(s, tag) ==
    IF tag = "RISKY_OSC" THEN s.risky_osc_zone[1] ELSE s.zones[tag]

\* C40: while a GridOsc (a planned zone or the RiskyOsc zone) is in Req or
\* Split a tick changes nothing of the session, so the swing state, the
\* active zone and the cleanup flags stay, and puts nothing in the engine.
\* At most one GridOsc is outside Init at any time: the active zone in
\* GridOsc or the RiskyOsc zone in RiskyOsc, with no cleanup in progress,
\* and its requests, two in Split and one in Req, are the only requests of
\* a zone in the engine.  Every acknowledgement of a zone's request, success
\* or fail, finds the session in that state and moves that zone from Split
\* to Req or from Req to Init.
C40_BlockedOnRequest ==
    /\ [](/\ Cardinality(C40_Busy(sw)) <= 1
          /\ \A tag \in C40_Busy(sw) :
                 /\ tag = (IF sw.state = SWING_RISKY_OSC THEN "RISKY_OSC" ELSE sw.active_zone)
                 /\ sw.state \in {SWING_GRID_OSC, SWING_RISKY_OSC}
                 /\ ~sw.state_cleanup
                 /\ Len(C40_Requests(tag))
                        = (IF C40_Emitter(sw, tag).state = G_SPLIT THEN 2 ELSE 1)
          /\ \A tag \in (ZoneNameSet \cup {"RISKY_OSC"}) \ C40_Busy(sw) : C40_Requests(tag) = << >>)
    /\ [][/\ (bk'.ticks # bk.ticks /\ C40_Busy(sw) # {})
              => /\ sw' = sw
                 /\ queue' = queue
          /\ (/\ queue # << >>
              /\ queue' = Tail(queue)
              /\ Head(queue).type \in {BUY, SELL}
              /\ Head(queue).tag \in ZoneNameSet \cup {"RISKY_OSC"})
              => /\ Head(queue).tag \in C40_Busy(sw)
                 /\ sw'.state = sw.state
                 /\ sw'.active_zone = sw.active_zone
                 /\ C40_Emitter(sw', Head(queue).tag).state
                        = (IF C40_Emitter(sw, Head(queue).tag).state = G_SPLIT THEN G_REQ ELSE G_INIT)]_vars

\* C40 witness: the active zone of the GridOsc is in Req, its Buy request is
\* in the engine and a tick at another price has come since the request was
\* made.
C40_Witness ==
    /\ sw.state = SWING_GRID_OSC
    /\ C40_Busy(sw) = {sw.active_zone}
    /\ sw.zones[sw.active_zone].state = G_REQ
    /\ Len(queue) = 1
    /\ Head(queue).tag = sw.active_zone
    /\ Head(queue).type = BUY
    /\ contract.last # Head(queue).price

(***************************************************************************)
(* A position kept by update_position_avg_price_2way (strategy.py) over a  *)
(* sequence of trades, with the sum of the gains it returned and the cash  *)
(* the trades moved.                                                       *)
(***************************************************************************)
MaxTrades == 4

MaxTradeQty == 2

TradePrices == {9, 10, 12}

InitPos ==
    /\ NoAO
    /\ NoGrid
    /\ cfg = << >> /\ sw = << >> /\ strat = << >> /\ queue = << >>
    /\ pm = [cma_price |-> RatInt(0), position_qty |-> 0, realized_gain |-> RatInt(0),
             cash |-> 0, n |-> 0, flipped |-> FALSE]

\* One call of update_position_avg_price_2way on the previous result.
Pos_Trade ==
    /\ pm.n < MaxTrades
    /\ \E trade_action \in {0, 1}, trade_direction \in {0, 1}, trade_price \in TradePrices, trade_qty \in 1..MaxTradeQty :
         \E u \in {Update2Way(pm.cma_price, pm.position_qty, trade_action, trade_direction, trade_price, trade_qty)} :
            pm' = [cma_price |-> u.cma_price,
                   position_qty |-> u.position_qty,
                   realized_gain |-> RatAdd(pm.realized_gain, u.realized_gain),
                   cash |-> pm.cash + trade_price * (pm.position_qty - u.position_qty),
                   n |-> pm.n + 1,
                   flipped |-> pm.flipped \/ pm.position_qty * u.position_qty < 0]
    /\ UNCHANGED << aoVars, gridVars, cfg, sw, strat, queue >>

NextPos == Pos_Trade

SpecPos == InitPos /\ [][NextPos]_vars

\* C13: for a sequence of trades starting from position 0 and average price
\* 0 that ends at position 0, the sum of the returned realized gains is the
\* cash the trades moved: the sum of price*qty over the trades that lowered
\* the signed position minus the sum over the trades that raised it.
C13_CashConservation ==
    (pm # << >> /\ pm.position_qty = 0) => pm.realized_gain.n = pm.cash * pm.realized_gain.d

C13_Witness ==
    /\ pm # << >>
    /\ pm.position_qty = 0
    /\ pm.flipped
    /\ pm.n = MaxTrades
    /\ pm.cash # 0

\* C14: update_position_avg_price_2way, for every trade on the current
\* position: the signed quantity is +qty when action = direction and -qty
\* otherwise; the new position is the sum; the average is 0 at a flat new
\* position, the trade price when the position opens or changes sign, the
\* quantity-weighted mean when it grows, and unchanged when it shrinks; the
\* gain is (price - average) * sign(old position) * min(|old|, |qty|) when
\* the trade reduces a nonzero position, else 0.
C14_TwoWayUpdate ==
    pm # << >> =>
    \A trade_action \in {0, 1}, trade_direction \in {0, 1}, trade_price \in TradePrices, trade_qty \in 1..MaxTradeQty :
        LET Holds(u, old, avg, signed) ==
                LET sgn == IF old > 0 THEN 1 ELSE 0 - 1
                    grows == old # 0 /\ old * signed > 0
                    reduces == old # 0 /\ old * signed < 0
                IN /\ u.position_qty = old + signed
                   /\ IF old + signed = 0 THEN u.cma_price.n = 0
                      ELSE IF old = 0 \/ old * (old + signed) < 0
                           THEN u.cma_price.n = trade_price * u.cma_price.d
                      ELSE IF grows
                           THEN u.cma_price.n * avg.d * (Abs(old) + trade_qty)
                                = (avg.n * Abs(old) + trade_price * trade_qty * avg.d) * u.cma_price.d
                      ELSE u.cma_price.n * avg.d = avg.n * u.cma_price.d
                   /\ IF reduces
                      THEN u.realized_gain.n * avg.d
                           = (trade_price * avg.d - avg.n) * sgn * Min(Abs(old), trade_qty) * u.realized_gain.d
                      ELSE u.realized_gain.n = 0
        IN Holds(Update2Way(pm.cma_price, pm.position_qty, trade_action, trade_direction, trade_price, trade_qty),
                 pm.position_qty, pm.cma_price,
                 IF trade_action = trade_direction THEN trade_qty ELSE 0 - trade_qty)

C14_Witness ==
    /\ pm # << >>
    /\ pm.flipped
    /\ pm.cma_price.d > 1
    /\ pm.realized_gain.n # 0

=============================================================================
